---- MODULE Spec2Model ----
(***************************************************************************)
(* python-constraint: Domain (constraint/domain.py), the constraint        *)
(* library (constraint/constraints.py), Problem (constraint/problem.py)    *)
(* and the backtracking solvers (constraint/solvers.py).                   *)
(*                                                                         *)
(* Variables of a problem are the integers 1..MaxVars (any hashable,       *)
(* comparable object may be a variable; integers keep the tie-break of     *)
(* lst.sort() expressible).  Domain values are integers, so the            *)
(* isinstance(sum, float) rounding branches are never taken.               *)
(***************************************************************************)
EXTENDS Integers, Sequences, FiniteSets, TLC

VARIABLES
    dom,          \* a Domain object exercised on its own (domain.py)
    marks,        \* ghost: live values recorded at each pending pushState of dom
    lastPop,      \* ghost: what the latest popState of dom restored
    variables,    \* Problem._variables : variable -> Domain
    declared,     \* ghost: the values each variable was declared with
    pconstraints, \* Problem._constraints : sequence of (constraint, variables)
    solver,       \* Problem._solver : class and forwardcheck flag
    run,          \* the solve call in progress or last finished
    prev,         \* ghost: the solve call finished before the current one
    str_constraints, \* Problem._str_constraints : sequence of string constraints
    heap,         \* the Domain objects alive, by object identity
    held,         \* the identities of the Domain objects the caller built
    refs,         \* Problem._variables as references : variable -> identity
    lastCall      \* ghost: the latest call on the definition and its outcome

vars == <<dom, marks, lastPop, variables, declared, pconstraints, solver, run, prev,
          str_constraints, heap, held, refs, lastCall>>

\* the state of the object-identity view of a Problem, and the string constraints
Objects == <<heap, held, refs, lastCall>>

----------------------------------------------------------------------------
(* Bounds *)

MaxVars == 3          \* variables a problem may register
MaxConstraints == 2   \* constraint records a problem may register
MaxDepth == 2         \* pending checkpoints on the stand-alone Domain
MaxLen == 3           \* length of the stand-alone Domain's value list

None == "None"

\* what a call hands back, kept with its Python type (NoneType, dict, list):
\* values of different types are never equal
NoneResult == <<"NoneType">>
DictResult(assignments) == <<"dict", assignments>>
ListResult(solutions) == <<"list", solutions>>

\* the value a call has handed back
Result(r) == IF r.result = NoneResult THEN None ELSE r.result[2]

----------------------------------------------------------------------------
(* Sequence helpers (Python list primitives) *)

Range(s) == {s[i] : i \in 1..Len(s)}

In(x, s) == \E i \in 1..Len(s) : s[i] = x

\* index of the first occurrence of x in s (list.index)
IndexOf(x, s) == CHOOSE i \in 1..Len(s) : s[i] = x /\ \A j \in 1..(i-1) : s[j] # x

\* list.remove(x): delete the first occurrence
ListRemove(s, x) ==
    LET i == IndexOf(x, s)
    IN  SubSeq(s, 1, i-1) \o SubSeq(s, i+1, Len(s))

\* s[-n:] for 0 < n <= len(s)
Tail_n(s, n) == SubSeq(s, Len(s) - n + 1, Len(s))

\* del s[-n:]
DropTail_n(s, n) == SubSeq(s, 1, Len(s) - n)

RECURSIVE SumSeq(_)
SumSeq(s) == IF s = <<>> THEN 0 ELSE Head(s) + SumSeq(Tail(s))

MinOf(s) == CHOOSE x \in Range(s) : \A y \in Range(s) : x <= y
MaxOf(s) == CHOOSE x \in Range(s) : \A y \in Range(s) : x >= y

----------------------------------------------------------------------------
(* Domain (constraint/domain.py) *)

\* Domain.__init__
Domain(set) == [values |-> set, hidden |-> <<>>, states |-> <<>>]

\* Domain.resetState
resetState(d) == [values |-> d.values \o d.hidden, hidden |-> <<>>, states |-> <<>>]

\* Domain.pushState
pushState(d) == [d EXCEPT !.states = Append(@, Len(d.values))]

\* a popState that forgets to give the hidden values back
popStateLossy(d) ==
    LET diff == d.states[Len(d.states)] - Len(d.values)
    IN  [values |-> d.values,
         hidden |-> IF diff # 0 THEN DropTail_n(d.hidden, diff) ELSE d.hidden,
         states |-> DropTail_n(d.states, 1)]

\* the position a slice bound of a list of length n stands for (negative
\* bounds count from the end, and bounds outside the list are clipped)
SliceBound(n, i) ==
    IF i < 0 THEN (IF n + i < 0 THEN 0 ELSE n + i) ELSE (IF i > n THEN n ELSE i)

\* s[start:]
SliceFrom(s, start) == SubSeq(s, SliceBound(Len(s), start) + 1, Len(s))

\* what `del s[start:]` leaves
SliceTo(s, start) == SubSeq(s, 1, SliceBound(Len(s), start))

\* Domain.popState: diff = self._states.pop() - len(self); if diff:
\* self.extend(self._hidden[-diff:]); del self._hidden[-diff:]
popState(d) ==
    LET diff == d.states[Len(d.states)] - Len(d.values)
    IN  IF diff # 0
        THEN [values |-> d.values \o SliceFrom(d.hidden, -diff),
              hidden |-> SliceTo(d.hidden, -diff),
              states |-> DropTail_n(d.states, 1)]
        ELSE [d EXCEPT !.states = DropTail_n(@, 1)]

\* Domain.hideValue
hideValue(d, value) ==
    [d EXCEPT !.values = ListRemove(@, value), !.hidden = Append(@, value)]

\* list.remove on the Domain (permanent removal, used by preProcess)
remove(d, value) == [d EXCEPT !.values = ListRemove(@, value)]

----------------------------------------------------------------------------
(* Constraints (constraint/constraints.py)                                 *)
(*                                                                         *)
(* A constraint object is a record; kind names its class.  mult = <<>>     *)
(* stands for multipliers=None.  An assignment (dict) is a function from   *)
(* the assigned variables to their values.                                 *)

Constraint(kind, fn, bound, mult, target, sum_vars) ==
    [kind |-> kind, fn |-> fn, assigned |-> TRUE, bound |-> bound, mult |-> mult,
     target |-> target, sum_vars |-> sum_vars]

FunctionConstraint(fn) == Constraint("Function", fn, 0, <<>>, 0, <<>>)
AllDifferentConstraint == Constraint("AllDifferent", "", 0, <<>>, 0, <<>>)
ExactSumConstraint(exactsum, multipliers) == Constraint("ExactSum", "", exactsum, multipliers, 0, <<>>)
MaxSumConstraint(maxsum, multipliers) == Constraint("MaxSum", "", maxsum, multipliers, 0, <<>>)
VariableExactSumConstraint(target_var, sum_vars) ==
    Constraint("VariableExactSum", "", 0, <<>>, target_var, sum_vars)

\* the user functions wrapped by FunctionConstraint (self._func(*parms))
func(fn, parms) ==
    CASE fn = "ne"  -> parms[1] # parms[2]
      [] fn = "lt"  -> parms[1] < parms[2]
      [] fn = "le0" -> parms[1] <= 0

\* the variables of a sequence that have no binding, in sequence order
Missing(cvars, assignments) == SelectSeq(cvars, LAMBDA x : x \notin DOMAIN assignments)

\* zip(variables, multipliers): indices both sequences have
Zip(cvars, multipliers) ==
    1..(IF Len(cvars) < Len(multipliers) THEN Len(cvars) ELSE Len(multipliers))

\* hideValue applied to each value of vals in turn
RECURSIVE HideEach(_, _)
HideEach(d, vals) ==
    IF vals = <<>> THEN d ELSE HideEach(hideValue(d, Head(vals)), Tail(vals))

\* The forward-checking loops of the library: for each unassigned variable
\* in turn hide toHide[variable] from its domain, and return False as soon
\* as a domain is left without values (hides done so far stay).
RECURSIVE HideLoop(_, _, _)
HideLoop(vs, domains, toHide) ==
    IF vs = <<>> THEN [ok |-> TRUE, domains |-> domains]
    ELSE LET v  == Head(vs)
             d  == HideEach(domains[v], toHide[v])
             nd == [domains EXCEPT ![v] = d]
         IN  IF d.values = <<>> THEN [ok |-> FALSE, domains |-> nd]
             ELSE HideLoop(Tail(vs), nd, toHide)

\* FunctionConstraint.__call__ on a complete assignment
FunctionFull(c, cvars, assignments) ==
    func(c.fn, [i \in 1..Len(cvars) |-> assignments[cvars[i]]])

\* Constraint.forwardCheck (called by FunctionConstraint)
forwardCheck(c, cvars, domains, assignments) ==
    LET missing == Missing(cvars, assignments)
    IN  IF Len(missing) # 1 THEN [ok |-> TRUE, domains |-> domains]
        ELSE LET u == missing[1]
                 bad == SelectSeq(domains[u].values,
                          LAMBDA value : ~FunctionFull(c, cvars, assignments @@ (u :> value)))
             IN  HideLoop(<<u>>, domains, (u :> bad))

\* FunctionConstraint.__call__
FunctionCall(c, cvars, domains, assignments, forwardcheck) ==
    LET missing == Len(Missing(cvars, assignments))
    IN  IF missing > 0
        THEN IF ~c.assigned /\ ~FunctionFull(c, cvars, assignments)
             THEN [ok |-> FALSE, domains |-> domains]
             ELSE IF ~forwardcheck \/ missing # 1
                  THEN [ok |-> TRUE, domains |-> domains]
                  ELSE forwardCheck(c, cvars, domains, assignments)
        ELSE [ok |-> FunctionFull(c, cvars, assignments), domains |-> domains]

\* the values bound to the assigned variables of cvars, in order (seen keys)
Seen(cvars, assignments) ==
    LET av == SelectSeq(cvars, LAMBDA x : x \in DOMAIN assignments)
    IN  [i \in 1..Len(av) |-> assignments[av[i]]]

NoDuplicates(s) == \A i, j \in 1..Len(s) : i # j => s[i] # s[j]

\* AllDifferentConstraint.__call__
AllDifferentCall(c, cvars, domains, assignments, forwardcheck) ==
    LET seen == Seen(cvars, assignments)
    IN  IF ~NoDuplicates(seen) THEN [ok |-> FALSE, domains |-> domains]
        ELSE IF ~forwardcheck THEN [ok |-> TRUE, domains |-> domains]
        ELSE LET un == Missing(cvars, assignments)
                 toHide == [v \in Range(un) |->
                               SelectSeq(seen, LAMBDA value : In(value, domains[v].values))]
             IN  HideLoop(un, domains, toHide)

\* sum of assignments[variable] * multiplier over the assigned variables
WeightedSum(cvars, multipliers, assignments) ==
    LET idx == IF multipliers # <<>> THEN Zip(cvars, multipliers) ELSE 1..Len(cvars)
        term(i) == IF cvars[i] \in DOMAIN assignments
                   THEN assignments[cvars[i]] * (IF multipliers # <<>> THEN multipliers[i] ELSE 1)
                   ELSE 0
    IN  SumSeq([i \in 1..Cardinality(idx) |-> term(i)])

\* the multiplier applied to a variable of cvars (1 without multipliers)
MultOf(cvars, multipliers, v) ==
    IF multipliers # <<>> THEN multipliers[IndexOf(v, cvars)] ELSE 1

\* the variables the sum loops visit: zip() stops at the shorter sequence
Summed(cvars, multipliers) ==
    IF multipliers # <<>> THEN SubSeq(cvars, 1, Cardinality(Zip(cvars, multipliers))) ELSE cvars

\* ExactSumConstraint.__call__
ExactSumCall(c, cvars, domains, assignments, forwardcheck) ==
    LET exactsum == c.bound
        sv == Summed(cvars, c.mult)
        sum == WeightedSum(cvars, c.mult, assignments)
        un == Missing(sv, assignments)
        missing == un # <<>>
        toHide == [v \in Range(un) |->
                      SelectSeq(domains[v].values,
                          LAMBDA value : sum + value * MultOf(cvars, c.mult, v) > exactsum)]
        fc == IF forwardcheck /\ missing THEN HideLoop(un, domains, toHide)
              ELSE [ok |-> TRUE, domains |-> domains]
    IN  IF sum > exactsum THEN [ok |-> FALSE, domains |-> domains]
        ELSE IF ~fc.ok THEN fc
        ELSE [ok |-> IF missing THEN sum <= exactsum ELSE sum = exactsum,
              domains |-> fc.domains]

\* MaxSumConstraint.__call__
MaxSumCall(c, cvars, domains, assignments, forwardcheck) ==
    LET maxsum == c.bound
        sv == Summed(cvars, c.mult)
        sum == WeightedSum(cvars, c.mult, assignments)
        un == Missing(sv, assignments)
        toHide == [v \in Range(un) |->
                      SelectSeq(domains[v].values,
                          LAMBDA value : sum + value * MultOf(cvars, c.mult, v) > maxsum)]
    IN  IF sum > maxsum THEN [ok |-> FALSE, domains |-> domains]
        ELSE IF forwardcheck THEN HideLoop(un, domains, toHide)
        ELSE [ok |-> TRUE, domains |-> domains]

\* VariableExactSumConstraint.__call__ (multipliers=None)
VariableExactSumCall(c, cvars, domains, assignments, forwardcheck) ==
    IF c.target \notin DOMAIN assignments THEN [ok |-> TRUE, domains |-> domains]
    ELSE LET target_value == assignments[c.target]
             un == Missing(c.sum_vars, assignments)
             missing == un # <<>>
             sum_value == SumSeq([i \in 1..Len(c.sum_vars) |->
                              IF c.sum_vars[i] \in DOMAIN assignments
                              THEN assignments[c.sum_vars[i]]
                              ELSE MinOf(domains[c.sum_vars[i]].values)])
             toHide == [v \in Range(un) |->
                           SelectSeq(domains[v].values,
                               LAMBDA value : sum_value + value > target_value)]
         IN  IF missing
             THEN IF sum_value > target_value THEN [ok |-> FALSE, domains |-> domains]
                  ELSE IF forwardcheck THEN HideLoop(un, domains, toHide)
                  ELSE [ok |-> TRUE, domains |-> domains]
             ELSE [ok |-> sum_value = target_value, domains |-> domains]

\* constraint(variables, domains, assignments, forwardcheck): dispatch on the class
Call(c, cvars, domains, assignments, forwardcheck) ==
    CASE c.kind = "Function"         -> FunctionCall(c, cvars, domains, assignments, forwardcheck)
      [] c.kind = "AllDifferent"     -> AllDifferentCall(c, cvars, domains, assignments, forwardcheck)
      [] c.kind = "ExactSum"         -> ExactSumCall(c, cvars, domains, assignments, forwardcheck)
      [] c.kind = "MaxSum"           -> MaxSumCall(c, cvars, domains, assignments, forwardcheck)
      [] c.kind = "VariableExactSum" -> VariableExactSumCall(c, cvars, domains, assignments, forwardcheck)

----------------------------------------------------------------------------
(* preProcess (constraint/constraints.py) and Problem._getArgs             *)
(*                                                                         *)
(* A preprocessing state is [domains, constraints, vconstraints, err]:     *)
(* err is set when the Python code raises (min()/max() of an empty         *)
(* domain); what was removed up to then stays removed.                     *)

\* an entry of a constraint list: the pair (constraint, variables)
Entry(c, cvars) == [c |-> c, vars |-> cvars]

\* for value in domain[:]: if <value fails>: domain.remove(value)
RECURSIVE RemoveFailing(_, _, _, _, _)
RemoveFailing(vals, variable, domains, c, cvars) ==
    IF vals = <<>> THEN domains
    ELSE LET value == Head(vals)
             keep == Call(c, cvars, domains, (variable :> value), FALSE).ok
             nd == IF keep THEN domains
                   ELSE [domains EXCEPT ![variable] = remove(@, value)]
         IN  RemoveFailing(Tail(vals), variable, nd, c, cvars)

\* Constraint.preProcess
ConstraintPreProcess(c, cvars, st) ==
    IF Len(cvars) = 1
    THEN LET variable == cvars[1]
             e == Entry(c, cvars)
         IN  [st EXCEPT
                !.domains = RemoveFailing(st.domains[variable].values, variable, st.domains, c, cvars),
                !.constraints = ListRemove(@, e),
                !.vconstraints = [@ EXCEPT ![variable] = ListRemove(@, e)]]
    ELSE st

\* remove from the domain of each variable of vs the values with value * multiplier > bound
RECURSIVE RemoveOver(_, _, _, _, _)
RemoveOver(vs, domains, cvars, multipliers, bound) ==
    IF vs = <<>> THEN domains
    ELSE LET v == Head(vs)
             m == MultOf(cvars, multipliers, v)
             kept == SelectSeq(domains[v].values, LAMBDA value : ~(value * m > bound))
         IN  RemoveOver(Tail(vs), [domains EXCEPT ![v].values = kept], cvars, multipliers, bound)

\* ExactSumConstraint.preProcess
ExactSumPreProcess(c, cvars, st) ==
    LET st1 == ConstraintPreProcess(c, cvars, st)
    IN  [st1 EXCEPT !.domains = RemoveOver(Summed(cvars, c.mult), @, cvars, c.mult, c.bound)]

ContainsNegative(d) == \E i \in 1..Len(d.values) : d.values[i] < 0

\* MaxSumConstraint.preProcess
MaxSumPreProcess(c, cvars, st) ==
    LET st1 == ConstraintPreProcess(c, cvars, st)
        neg == SelectSeq(cvars, LAMBDA v : ContainsNegative(st1.domains[v]))
        pruned == IF neg = <<>> THEN Summed(cvars, c.mult)
                  ELSE SelectSeq(Summed(cvars, c.mult), LAMBDA v : v = neg[1])
    IN  IF Len(neg) > 1 THEN st1
        ELSE [st1 EXCEPT !.domains = RemoveOver(pruned, @, cvars, c.mult, c.bound)]

\* VariableExactSumConstraint.preProcess, the loop over sum_vars (multipliers=None)
RECURSIVE VariableExactSumPrune(_, _, _)
VariableExactSumPrune(vs, c, st) ==
    IF vs = <<>> \/ st.err THEN st
    ELSE LET var == Head(vs)
             domains == st.domains
             others == SelectSeq(c.sum_vars, LAMBDA v : v # var)
             raises == (\E i \in 1..Len(others) : domains[others[i]].values = <<>>)
                       \/ (domains[var].values # <<>> /\ domains[c.target].values = <<>>)
             others_min == SumSeq([i \in 1..Len(others) |-> MinOf(domains[others[i]].values)])
             others_max == SumSeq([i \in 1..Len(others) |-> MaxOf(domains[others[i]].values)])
             kept == SelectSeq(domains[var].values,
                        LAMBDA value : ~(value + others_min > MaxOf(domains[c.target].values))
                                       /\ ~(value + others_max < MinOf(domains[c.target].values)))
         IN  IF raises THEN [st EXCEPT !.err = TRUE]
             ELSE VariableExactSumPrune(Tail(vs), c, [st EXCEPT !.domains[var].values = kept])

\* VariableExactSumConstraint.preProcess
VariableExactSumPreProcess(c, cvars, st) ==
    VariableExactSumPrune(c.sum_vars, c, ConstraintPreProcess(c, cvars, st))

\* constraint.preProcess(variables, domains, constraints, vconstraints)
preProcess(c, cvars, st) ==
    CASE c.kind = "ExactSum"         -> ExactSumPreProcess(c, cvars, st)
      [] c.kind = "MaxSum"           -> MaxSumPreProcess(c, cvars, st)
      [] c.kind = "VariableExactSum" -> VariableExactSumPreProcess(c, cvars, st)
      [] OTHER                       -> ConstraintPreProcess(c, cvars, st)

\* for constraint, variables in constraints[:]: constraint.preProcess(...)
RECURSIVE PreProcessAll(_, _)
PreProcessAll(snapshot, st) ==
    IF snapshot = <<>> \/ st.err THEN st
    ELSE PreProcessAll(Tail(snapshot), preProcess(Head(snapshot).c, Head(snapshot).vars, st))

\* for domain in domains.values(): domain.resetState(); if not domain: return None
\* (the domains after the first empty one are left as they are)
ResetAll(vs, st) ==
    LET empty == {i \in 1..Len(vs) : resetState(st.domains[vs[i]]).values = <<>>}
        last == IF empty = {} THEN Len(vs) ELSE CHOOSE i \in empty : \A j \in empty : i <= j
    IN  [st EXCEPT !.none = empty # {},
                   !.domains = [v \in DOMAIN st.domains |->
                                   IF \E i \in 1..last : vs[i] = v
                                   THEN resetState(st.domains[v]) ELSE st.domains[v]]]

\* list(domains.keys()): the registered variables in insertion order
AllVariables(domains) == [i \in 1..Cardinality(DOMAIN domains) |-> i]

\* Problem._getArgs (no string constraints registered)
getArgs(domains, registered) ==
    LET allvariables == AllVariables(domains)
        constraints == [i \in 1..Len(registered) |->
                           Entry(registered[i].c,
                                 IF registered[i].vars = <<>> THEN allvariables
                                 ELSE registered[i].vars)]
        vconstraints == [v \in DOMAIN domains |->
                            SelectSeq(constraints, LAMBDA e : In(v, e.vars))]
        st0 == [domains |-> domains, constraints |-> constraints,
                vconstraints |-> vconstraints, err |-> FALSE, none |-> FALSE]
        st1 == PreProcessAll(constraints, st0)
    IN  IF st1.err THEN st1 ELSE ResetAll(allvariables, st1)

----------------------------------------------------------------------------
(* Solvers (constraint/solvers.py)                                         *)
(*                                                                         *)
(* A solver call is a record r; the Domain objects it works on are the     *)
(* problem's own (dict.copy() is shallow).  pushdomains holds the          *)
(* variables whose Domain objects the Python list holds; None and [] are   *)
(* both <<>>, since the code only tests the list's truth value.  A step    *)
(* maps [r, domains] to [r, domains].                                      *)

Classes == {"BacktrackingSolver", "OptimizedBacktrackingSolver", "RecursiveBacktrackingSolver"}

Idle == [pc |-> "idle"]

\* an order that leaves the size of the domains out of the sort key
BeforeByDegree(x, y, domains, vconstraints) ==
    \/ Len(vconstraints[x]) > Len(vconstraints[y])
    \/ Len(vconstraints[x]) = Len(vconstraints[y]) /\ x < y

\* insertion sort of variables by (-len(vconstraints[v]), len(domains[v]), v): lst.sort()
Before(x, y, domains, vconstraints) ==
    LET kx == <<0 - Len(vconstraints[x]), Len(domains[x].values), x>>
        ky == <<0 - Len(vconstraints[y]), Len(domains[y].values), y>>
    IN  \/ kx[1] < ky[1]
        \/ kx[1] = ky[1] /\ kx[2] < ky[2]
        \/ kx[1] = ky[1] /\ kx[2] = ky[2] /\ kx[3] < ky[3]

\* lst.sort(): the keys are pairwise different, so the i-th item is the one
\* with i-1 items before it
SortBy(S, domains, vconstraints) ==
    [i \in 1..Cardinality(S) |->
        CHOOSE x \in S :
            Cardinality({y \in S : Before(y, x, domains, vconstraints)}) = i - 1]

\* OptimizedBacktrackingSolver.getSortedVariables (and the lst of the other solvers)
getSortedVariables(domains, vconstraints) == SortBy(DOMAIN domains, domains, vconstraints)

\* [domains[x] for x in domains if x not in assignments and x != variable]
PushDomains(domains, assignments, variable) ==
    SelectSeq(AllVariables(domains), LAMBDA x : x \notin DOMAIN assignments /\ x # variable)

RECURSIVE PushAll(_, _)
PushAll(pushdomains, domains) ==
    IF pushdomains = <<>> THEN domains
    ELSE PushAll(Tail(pushdomains), [domains EXCEPT ![Head(pushdomains)] = pushState(@)])

RECURSIVE PopAll(_, _)
PopAll(pushdomains, domains) ==
    IF pushdomains = <<>> THEN domains
    ELSE PopAll(Tail(pushdomains), [domains EXCEPT ![Head(pushdomains)] = popState(@)])

\* for constraint, variables in vconstraints[variable]: if not constraint(...): break
RECURSIVE CheckAll(_, _, _, _)
CheckAll(cs, domains, assignments, forwardcheck) ==
    IF cs = <<>> THEN [ok |-> TRUE, domains |-> domains]
    ELSE LET res == Call(Head(cs).c, Head(cs).vars, domains, assignments, forwardcheck)
         IN  IF ~res.ok THEN res
             ELSE CheckAll(Tail(cs), res.domains, assignments, forwardcheck)

\* del assignments[variable]
Del(assignments, variable) ==
    [x \in (DOMAIN assignments) \ {variable} |-> assignments[x]]

\* assignments[variable] = value
Bind(assignments, variable, value) ==
    [x \in (DOMAIN assignments) \cup {variable} |->
        IF x = variable THEN value ELSE assignments[x]]

\* the state of a solver call right after it is entered
StartRun(cls, forwardcheck, entry, args) ==
    [pc |-> "select", cls |-> cls, forwardcheck |-> forwardcheck, entry |-> entry,
     impl |-> IF cls = "RecursiveBacktrackingSolver" THEN "recursive"
              ELSE IF cls = "OptimizedBacktrackingSolver" /\ entry = "getSolutions" /\ ~forwardcheck
                   THEN "list" ELSE "iter",
     constraints |-> args.constraints, vconstraints |-> args.vconstraints,
     sorted_variables |-> IF cls = "OptimizedBacktrackingSolver"
                          THEN getSortedVariables(args.domains, args.vconstraints) ELSE <<>>,
     assignments |-> <<>>, queue |-> <<>>, frames |-> <<>>,
     variable |-> 0, values |-> <<>>, pushdomains |-> <<>>,
     solutions |-> <<>>, orders |-> <<>>,
     entered |-> args.domains]

\* the variable order a Select step scans
Order(r, domains) ==
    IF r.cls = "OptimizedBacktrackingSolver" THEN r.sorted_variables
    ELSE getSortedVariables(domains, r.vconstraints)

\* the keys of the assignments dict in insertion order: the variables in the
\* order they were bound in (the queue, the call stack)
KeyOrder(r) ==
    IF r.impl = "recursive" THEN [i \in 1..Len(r.frames) |-> r.frames[i].variable]
    ELSE [i \in 1..Len(r.queue) |-> r.queue[i].variable]

\* the first unassigned variable of the order (0: none)
NextVariable(r, domains) ==
    LET un == SelectSeq(Order(r, domains), LAMBDA x : x \notin DOMAIN r.assignments)
    IN  IF un = <<>> THEN 0 ELSE un[1]

\* what the entry point returns once the search is over: the call has a
\* result from its return on, and none while the search is under way
Finish(r) ==
    [result |-> IF r.entry = "getSolutions" THEN ListResult(r.solutions)
                ELSE IF r.solutions = <<>> THEN NoneResult
                ELSE DictResult(r.solutions[1])]
        @@ [r EXCEPT !.pc = "done"]

(* BacktrackingSolver.getSolutionIter, OptimizedBacktrackingSolver.getSolutionIter
   and OptimizedBacktrackingSolver.getSolutionsList *)

\* top of the outer loop: find an unassigned variable, or emit the assignment
SelectStep(r, domains) ==
    LET variable == NextVariable(r, domains)
    IN  IF variable # 0
        THEN [r |-> [r EXCEPT !.pc = "try", !.variable = variable,
                              !.values = domains[variable].values,
                              !.pushdomains = IF r.forwardcheck /\ r.impl = "iter"
                                              THEN PushDomains(domains, r.assignments, variable)
                                              ELSE <<>>],
              domains |-> domains]
        ELSE LET r1 == [r EXCEPT !.solutions = Append(@, r.assignments),
                                 !.orders = Append(@, KeyOrder(r))]
             IN  [r |-> IF r.entry = "getSolution" THEN Finish(r1)
                        ELSE [r1 EXCEPT !.pc = "emit"],
                  domains |-> domains]

\* after the yield / append: return when the queue is empty, else pop it
ResumeStep(r, domains) ==
    IF r.queue = <<>> THEN [r |-> Finish(r), domains |-> domains]
    ELSE LET top == r.queue[Len(r.queue)]
         IN  [r |-> [r EXCEPT !.pc = "try", !.queue = DropTail_n(@, 1),
                              !.variable = top.variable, !.values = top.values,
                              !.pushdomains = top.pushdomains],
              domains |-> PopAll(top.pushdomains, domains)]

\* while queue: pop; popState; if values: break; del assignments[variable]
RECURSIVE Unwind(_, _)
Unwind(r, domains) ==
    IF r.queue = <<>> THEN [r |-> Finish(r), domains |-> domains]
    ELSE LET top == r.queue[Len(r.queue)]
             d1 == PopAll(top.pushdomains, domains)
             r1 == [r EXCEPT !.queue = DropTail_n(@, 1), !.variable = top.variable,
                             !.values = top.values, !.pushdomains = top.pushdomains]
         IN  IF top.values # <<>> THEN [r |-> r1, domains |-> d1]
             ELSE Unwind([r1 EXCEPT !.assignments = Del(@, top.variable)], d1)

\* no values left for the variable: go back to the last variable that has some
BacktrackStep(r, domains) ==
    Unwind([r EXCEPT !.assignments = Del(@, r.variable)], domains)

\* a step that binds the last value and leaves it in the list of values to try
TryStepKeep(r, domains) ==
    [r |-> [r EXCEPT !.pc = "check",
                     !.assignments = Bind(@, r.variable, r.values[Len(r.values)])],
     domains |-> PushAll(r.pushdomains, domains)]

\* assignments[variable] = values.pop(); pushState on the pushdomains
TryStep(r, domains) ==
    [r |-> [r EXCEPT !.pc = "check",
                     !.assignments = Bind(@, r.variable, r.values[Len(r.values)]),
                     !.values = DropTail_n(@, 1)],
     domains |-> PushAll(r.pushdomains, domains)]

\* a constraint loop that leaves the checkpoints in place when a value is rejected
CheckStepNoPop(r, domains) ==
    LET res == CheckAll(r.vconstraints[r.variable], domains, r.assignments, r.pushdomains # <<>>)
    IN  IF res.ok
        THEN [r |-> [r EXCEPT !.pc = "select",
                              !.queue = Append(@, [variable |-> r.variable, values |-> r.values,
                                                   pushdomains |-> r.pushdomains])],
              domains |-> res.domains]
        ELSE [r |-> [r EXCEPT !.pc = "try"], domains |-> res.domains]

\* the constraint loop; on rejection popState, on acceptance queue.append
CheckStep(r, domains) ==
    LET res == CheckAll(r.vconstraints[r.variable], domains, r.assignments, r.pushdomains # <<>>)
    IN  IF res.ok
        THEN [r |-> [r EXCEPT !.pc = "select",
                              !.queue = Append(@, [variable |-> r.variable, values |-> r.values,
                                                   pushdomains |-> r.pushdomains])],
              domains |-> res.domains]
        ELSE [r |-> [r EXCEPT !.pc = "try"], domains |-> PopAll(r.pushdomains, res.domains)]

(* RecursiveBacktrackingSolver.recursiveBacktracking: frames is the call
   stack, one frame per invocation that is inside its for loop; idx is the
   position of the list iterator of `for value in domains[variable]`. *)

\* entry of an invocation: pick the variable, or append the solution and return
RecSelectStep(r, domains) ==
    LET variable == NextVariable(r, domains)
    IN  IF variable = 0
        THEN [r |-> [r EXCEPT !.pc = "ret", !.solutions = Append(@, r.assignments),
                              !.orders = Append(@, KeyOrder(r))],
              domains |-> domains]
        ELSE [r |-> [r EXCEPT !.pc = "try",
                        !.frames = Append(@, [variable |-> variable, idx |-> 1,
                                     pushdomains |-> IF r.forwardcheck
                                                     THEN PushDomains(domains, r.assignments, variable)
                                                     ELSE <<>>])],
              domains |-> domains]

\* head of the for loop: next value, or del assignments[variable] and return
RecTryStep(r, domains) ==
    LET f == r.frames[Len(r.frames)]
    IN  IF f.idx > Len(domains[f.variable].values)
        THEN [r |-> [r EXCEPT !.pc = "ret", !.frames = DropTail_n(@, 1),
                              !.assignments = Del(@, f.variable)],
              domains |-> domains]
        ELSE [r |-> [r EXCEPT !.pc = "check",
                              !.assignments = Bind(@, f.variable, domains[f.variable].values[f.idx])],
              domains |-> PushAll(f.pushdomains, domains)]

\* the constraint loop; recurse when the value is good, else popState and go on
RecCheckStep(r, domains) ==
    LET f == r.frames[Len(r.frames)]
        res == CheckAll(r.vconstraints[f.variable], domains, r.assignments, f.pushdomains # <<>>)
    IN  IF res.ok THEN [r |-> [r EXCEPT !.pc = "select"], domains |-> res.domains]
        ELSE [r |-> [r EXCEPT !.pc = "try", !.frames[Len(r.frames)].idx = @ + 1],
              domains |-> PopAll(f.pushdomains, res.domains)]

\* an invocation has returned: into its caller's loop body, or out of the entry point
RecReturnStep(r, domains) ==
    IF r.frames = <<>> THEN [r |-> Finish(r), domains |-> domains]
    ELSE LET f == r.frames[Len(r.frames)]
         IN  IF r.solutions # <<>> /\ r.entry = "getSolution"
             THEN [r |-> [r EXCEPT !.frames = DropTail_n(@, 1)], domains |-> domains]
             ELSE [r |-> [r EXCEPT !.pc = "try", !.frames[Len(r.frames)].idx = @ + 1],
                   domains |-> PopAll(f.pushdomains, domains)]

\* one step of a solver call
Step(r, domains) ==
    IF r.impl = "recursive"
    THEN CASE r.pc = "select" -> RecSelectStep(r, domains)
           [] r.pc = "try"    -> RecTryStep(r, domains)
           [] r.pc = "check"  -> RecCheckStep(r, domains)
           [] r.pc = "ret"    -> RecReturnStep(r, domains)
    ELSE CASE r.pc = "select" -> SelectStep(r, domains)
           [] r.pc = "emit"   -> ResumeStep(r, domains)
           [] r.pc = "try" /\ r.values = <<>> -> BacktrackStep(r, domains)
           [] r.pc = "try" /\ r.values # <<>> -> TryStep(r, domains)
           [] r.pc = "check"  -> CheckStep(r, domains)

\* a solver call run to its return
RECURSIVE RunToEnd(_, _)
RunToEnd(r, domains) ==
    IF r.pc = "done" THEN [r |-> r, domains |-> domains]
    ELSE CHOOSE end \in {RunToEnd(n.r, n.domains) : n \in {Step(r, domains)}} : TRUE

\* solver.getSolutions(domains, constraints, vconstraints) / getSolution from compiled args
Solve(cls, forwardcheck, entry, args) ==
    RunToEnd(StartRun(cls, forwardcheck, entry, args), args.domains)

----------------------------------------------------------------------------
(* Problem (constraint/problem.py) *)

\* the domains addVariable is called with
DomainChoices == {<<1, 2>>, <<-1, 0>>}

\* the (constraint, variables) pairs addConstraint is called with, in the
\* order a problem registers them; variables = <<>> is variables=None
ConstraintChoices ==
    << Entry(FunctionConstraint("ne"), <<1, 2>>),
       Entry(FunctionConstraint("le0"), <<2>>),
       Entry(ExactSumConstraint(3, <<1, 2>>), <<1, 2>>),
       Entry(MaxSumConstraint(1, <<>>), <<>>),
       Entry(VariableExactSumConstraint(1, <<2, 3>>), <<1, 2, 3>>) >>

\* the variables an entry needs registered
Mentions(e) == Range(e.vars) \cup Range(e.c.sum_vars) \cup (IF e.c.target = 0 THEN {} ELSE {e.c.target})

ChoiceIndex(e) == CHOOSE k \in 1..Len(ConstraintChoices) : ConstraintChoices[k] = e

Returned(r) == r.pc \in {"idle", "done", "raised"}

\* Problem.addVariable(variable, domain): Domain(domain) stored under the new key
addVariable(domain) ==
    /\ run.pc = "idle" /\ pconstraints = <<>>
    /\ Cardinality(DOMAIN variables) < MaxVars
    /\ LET variable == Cardinality(DOMAIN variables) + 1
       IN  /\ variables' = [x \in 1..variable |->
                               IF x = variable THEN Domain(domain) ELSE variables[x]]
           /\ declared' = [x \in 1..variable |->
                               IF x = variable THEN domain ELSE declared[x]]
    /\ run' = Idle /\ prev' = Idle
    /\ UNCHANGED <<Objects, str_constraints, dom, marks, lastPop, pconstraints, solver>>

\* Problem.addConstraint(constraint, variables)
addConstraint(k) ==
    /\ Returned(run)
    /\ Len(pconstraints) < MaxConstraints
    /\ \A i \in 1..Len(pconstraints) : ChoiceIndex(pconstraints[i]) < k
    /\ Mentions(ConstraintChoices[k]) \subseteq DOMAIN variables
    /\ pconstraints' = Append(pconstraints, ConstraintChoices[k])
    /\ run' = Idle /\ prev' = Idle
    /\ UNCHANGED <<Objects, str_constraints, dom, marks, lastPop, variables, declared, solver>>

\* the summary kept of the call that returned before the current one
Summary(r) ==
    IF r.pc = "done"
    THEN [pc |-> "done", entry |-> r.entry, result |-> r.result, found |-> r.solutions # <<>>]
    ELSE Idle

\* Problem.getSolution / Problem.getSolutions up to the call into the solver:
\* _getArgs, the `if not domains` return (impl "skipped": the solver is not
\* called), and the entry of the solver method
Enter(entry) ==
    /\ Returned(run)
    /\ \E args \in {getArgs(variables, pconstraints)} :
       LET start == StartRun(solver.cls, solver.forwardcheck, entry, args)
       IN  /\ variables' = args.domains
           /\ run' = IF args.err THEN [pc |-> "raised", entry |-> entry]
                     ELSE IF args.none \/ DOMAIN args.domains = {}
                          THEN [Finish(start) EXCEPT !.constraints = <<>>, !.vconstraints = <<>>,
                                                     !.sorted_variables = <<>>,
                                                     !.impl = "skipped"]
                          ELSE start
    /\ prev' = Summary(run)
    /\ UNCHANGED <<Objects, str_constraints, dom, marks, lastPop, declared, pconstraints, solver>>

getSolution == Enter("getSolution")

getSolutions == Enter("getSolutions")

Advance(pc, recursive, cond) ==
    /\ run.pc = pc
    /\ (run.impl = "recursive") = recursive
    /\ cond
    /\ \E n \in {Step(run, variables)} :
          run' = n.r /\ variables' = n.domains
    /\ UNCHANGED <<Objects, str_constraints, dom, marks, lastPop, declared, pconstraints, solver, prev>>

Select == Advance("select", FALSE, TRUE)
Resume == Advance("emit", FALSE, TRUE)
Backtrack == Advance("try", FALSE, run.values = <<>>)
Try == Advance("try", FALSE, run.values # <<>>)
Check == Advance("check", FALSE, TRUE)
RecSelect == Advance("select", TRUE, TRUE)
RecTry == Advance("try", TRUE, TRUE)
RecCheck == Advance("check", TRUE, TRUE)
RecReturn == Advance("ret", TRUE, TRUE)

NoPop == [pc |-> "none"]

NoCall == [op |-> "none"]

\* no string constraint, and nothing in the object-identity view
NoObjects ==
    /\ str_constraints = <<>>
    /\ heap = <<>> /\ held = {} /\ refs = <<>> /\ lastCall = NoCall

Init ==
    /\ dom = Domain(<<1>>) /\ marks = <<>> /\ lastPop = NoPop
    /\ variables = <<>> /\ declared = <<>> /\ pconstraints = <<>>
    /\ solver \in [cls : Classes, forwardcheck : BOOLEAN]
    /\ run = Idle /\ prev = Idle
    /\ NoObjects

Next ==
    \/ \E domain \in DomainChoices : addVariable(domain)
    \/ \E k \in 1..Len(ConstraintChoices) : addConstraint(k)
    \/ getSolution
    \/ getSolutions
    \/ Select
    \/ Resume
    \/ Backtrack
    \/ Try
    \/ Check
    \/ RecSelect
    \/ RecTry
    \/ RecCheck
    \/ RecReturn

Spec == Init /\ [][Next]_vars

----------------------------------------------------------------------------
(* A Domain on its own: well-nested pushState / hideValue / popState calls.  *)
(* marks records, for each pending checkpoint, the live values at its        *)
(* pushState and whether a value was hidden since.                           *)

\* the values a stand-alone Domain is built from (lists, duplicates allowed)
DomainValues == {1, 2, 3}

DomainLists == UNION {[1..n -> DomainValues] : n \in 0..MaxLen}

InitDomain ==
    /\ dom \in {Domain(s) : s \in DomainLists}
    /\ marks = <<>> /\ lastPop = NoPop
    /\ variables = <<>> /\ declared = <<>> /\ pconstraints = <<>>
    /\ solver = [cls |-> "BacktrackingSolver", forwardcheck |-> TRUE]
    /\ run = Idle /\ prev = Idle
    /\ NoObjects

Frame == <<variables, declared, pconstraints, solver, run, prev, Objects, str_constraints>>

PushState ==
    /\ Len(dom.states) < MaxDepth
    /\ dom' = pushState(dom)
    /\ marks' = Append(marks, [live |-> Range(dom.values), hid |-> FALSE])
    /\ UNCHANGED <<lastPop, Frame>>

\* hideValue of a live value, inside a checkpoint
HideValue ==
    /\ dom.states # <<>>
    /\ \E value \in Range(dom.values) :
          dom' = hideValue(dom, value)
    /\ marks' = [i \in 1..Len(marks) |-> [marks[i] EXCEPT !.hid = TRUE]]
    /\ UNCHANGED <<lastPop, Frame>>

PopState ==
    /\ dom.states # <<>>
    /\ dom' = popState(dom)
    /\ marks' = DropTail_n(marks, 1)
    /\ lastPop' = [pc |-> "popped", before |-> marks[Len(marks)].live,
                   hid |-> marks[Len(marks)].hid,
                   after |-> Range(dom'.values), pending |-> Len(dom'.states)]
    /\ UNCHANGED Frame

NextDomain ==
    \/ PushState
    \/ HideValue
    \/ PopState

SpecDomain == InitDomain /\ [][NextDomain]_vars

----------------------------------------------------------------------------
(* The solver classes besides the two iterative ones, called through        *)
(* Problem: which entry points each class has, ParallelSolver.getSolutions  *)
(* and MinConflictsSolver.getSolution.                                      *)

MaxSteps == 2         \* largest `steps` a MinConflictsSolver is built with

Entries == {"getSolution", "getSolutions", "getSolutionIter"}

\* the entry points each class body defines
Defines(cls) ==
    CASE cls = "BacktrackingSolver"          -> {"getSolutionIter", "getSolution", "getSolutions"}
      [] cls = "OptimizedBacktrackingSolver" -> {"getSolutionIter", "getSolution", "getSolutions"}
      [] cls = "RecursiveBacktrackingSolver" -> {"getSolution", "getSolutions"}
      [] cls = "MinConflictsSolver"          -> {"getSolution"}
      [] cls = "ParallelSolver"              -> {"getSolution", "getSolutions"}

\* attribute lookup of an entry point: the class body, else the base class Solver
Resolve(cls, entry) == IF entry \in Defines(cls) THEN cls ELSE "Solver"

\* the methods whose body is `raise NotImplementedError(msg)`
RaisesInBaseOnly(owner, entry) == owner = "Solver"

RaisesNotImplemented(owner, entry) ==
    \/ owner = "Solver"
    \/ owner = "ParallelSolver" /\ entry = "getSolution"

\* is_valid(assignment, constraints_lookup, domains)
is_valid(assignment, constraints_lookup, domains) ==
    \A i \in 1..Len(constraints_lookup) :
        Range(constraints_lookup[i].vars) \subseteq DOMAIN assignment
            => Call(constraints_lookup[i].c, constraints_lookup[i].vars,
                    domains, assignment, FALSE).ok

RECURSIVE Extend(_)
\* solutions.extend(result) over a list of result lists
Extend(lists) == IF lists = <<>> THEN <<>> ELSE Head(lists) \o Extend(Tail(lists))

RECURSIVE sequential_backtrack(_, _, _, _)
sequential_backtrack(assignment, unassigned_vars, domains, constraint_lookup) ==
    IF unassigned_vars = <<>> THEN <<assignment>>
    ELSE LET var == unassigned_vars[Len(unassigned_vars)]
             remaining_vars == DropTail_n(unassigned_vars, 1)
             sub(value) ==
                 IF is_valid(Bind(assignment, var, value), constraint_lookup[var], domains)
                 THEN sequential_backtrack(Bind(assignment, var, value), remaining_vars,
                                           domains, constraint_lookup)
                 ELSE <<>>
         IN  Extend([i \in 1..Len(domains[var].values) |-> sub(domains[var].values[i])])

parallel_worker(domains, constraint_lookup, first_var, first_value, remaining_vars) ==
    IF is_valid(Bind(<<>>, first_var, first_value), constraint_lookup[first_var], domains)
    THEN sequential_backtrack(Bind(<<>>, first_var, first_value), remaining_vars,
                              domains, constraint_lookup)
    ELSE <<>>

\* sorted(domains.keys(), key=lambda v: len(domains[v])), a stable sort
SortedBySize(domains) ==
    LET S == DOMAIN domains
        before(y, x) ==
            \/ Len(domains[y].values) < Len(domains[x].values)
            \/ Len(domains[y].values) = Len(domains[x].values) /\ y < x
    IN  [i \in 1..Cardinality(S) |->
            CHOOSE x \in S : Cardinality({y \in S : before(y, x)}) = i - 1]

\* ParallelSolver.getSolutionsList on copies of domains and vconstraints: the
\* results of the workers in the order of the first variable's values
getSolutionsList(domains, vconstraints) ==
    LET sorted_vars == SortedBySize(domains)
        first_var == sorted_vars[1]
        remaining_vars == Tail(sorted_vars)
    IN  Extend([i \in 1..Len(domains[first_var].values) |->
                   parallel_worker(domains, vconstraints, first_var,
                                   domains[first_var].values[i], remaining_vars)])

\* the constraints of vconstraints[variable] that reject the assignments
Conflicts(variable, vconstraints, domains, assignments) ==
    Cardinality({i \in 1..Len(vconstraints[variable]) :
        ~Call(vconstraints[variable][i].c, vconstraints[variable][i].vars,
              domains, assignments, FALSE).ok})

\* minvalues: the values of the variable's domain with the fewest conflicts
MinValues(variable, vconstraints, domains, assignments) ==
    LET count(value) == Conflicts(variable, vconstraints, domains,
                                  Bind(assignments, variable, value))
        values == Range(domains[variable].values)
    IN  {value \in values : \A other \in values : count(value) <= count(other)}

\* a loop that gives up one pass early
LoopHeadEarly(r, domains) ==
    IF r.step + 1 < r.steps
    THEN [r EXCEPT !.pc = "pass", !.conflicted = FALSE, !.moved = FALSE,
                   !.lst = DOMAIN domains]
    ELSE [r EXCEPT !.pc = "done", !.result = NoneResult]

\* the head of `for _ in range(self._steps)`: another pass, or return None
LoopHead(r, domains) ==
    IF r.step < r.steps
    THEN [r EXCEPT !.pc = "pass", !.conflicted = FALSE, !.moved = FALSE,
                   !.lst = DOMAIN domains]
    ELSE [r EXCEPT !.pc = "done", !.result = NoneResult]

\* Problem.getSolution / getSolutions / getSolutionIter with one of these
\* solvers: _getArgs, the `if not domains` return, then the solver's method
Invoke(entry) ==
    /\ Returned(run)
    /\ \E args \in {getArgs(variables, pconstraints)} :
       LET call == [pc |-> "done", cls |-> solver.cls, entry |-> entry,
                    impl |-> "solver", entered |-> args.domains]
           owner == Resolve(solver.cls, entry)
       IN  /\ variables' = args.domains
           /\ IF args.err
              THEN run' = [pc |-> "raised", entry |-> entry, impl |-> "compile",
                           error |-> "ValueError"]
              ELSE IF args.none \/ DOMAIN args.domains = {}
              THEN run' = [call EXCEPT !.impl = "skipped"]
                            @@ [result |-> IF entry = "getSolution" THEN NoneResult ELSE ListResult(<<>>)]
              ELSE IF RaisesNotImplemented(owner, entry)
              THEN run' = [pc |-> "raised", entry |-> entry, impl |-> "solver",
                           error |-> "NotImplementedError"]
              ELSE CASE solver.cls = "ParallelSolver" ->
                            run' = call @@ [result |-> ListResult(
                                       getSolutionsList(args.domains, args.vconstraints))]
                     [] solver.cls = "MinConflictsSolver" ->
                            \E assignments \in [DOMAIN args.domains ->
                                    UNION {Range(args.domains[v].values) : v \in DOMAIN args.domains}] :
                               /\ \A v \in DOMAIN args.domains :
                                     In(assignments[v], args.domains[v].values)
                               /\ run' = LoopHead(call @@
                                             [constraints |-> args.constraints,
                                              vconstraints |-> args.vconstraints,
                                              assignments |-> assignments,
                                              steps |-> solver.steps, step |-> 0,
                                              lst |-> {}, conflicted |-> FALSE,
                                              moved |-> FALSE, stalled |-> FALSE,
                                              passes |-> 0, found |-> FALSE,
                                              result |-> NoneResult], args.domains)
                     [] OTHER ->
                            run' = StartRun(solver.cls, solver.forwardcheck, entry, args)
    /\ UNCHANGED <<Objects, str_constraints, dom, marks, lastPop, declared, pconstraints, solver, prev>>

\* one variable of the shuffled list that is not in conflict: `continue`
MinConflictsKeep ==
    /\ run.pc = "pass"
    /\ \E variable \in run.lst :
          /\ Conflicts(variable, run.vconstraints, variables, run.assignments) = 0
          /\ run' = [run EXCEPT !.lst = @ \ {variable}]
    /\ UNCHANGED <<Objects, str_constraints, dom, marks, lastPop, variables, declared, pconstraints, solver, prev>>

\* one variable of the shuffled list that is in conflict: it is given one of
\* the values with the fewest conflicts, chosen at random
MinConflictsRepair ==
    /\ run.pc = "pass"
    /\ \E variable \in run.lst :
          /\ Conflicts(variable, run.vconstraints, variables, run.assignments) > 0
          /\ \E value \in MinValues(variable, run.vconstraints, variables, run.assignments) :
                run' = [run EXCEPT !.lst = @ \ {variable},
                                   !.assignments = Bind(@, variable, value),
                                   !.conflicted = TRUE,
                                   !.moved = @ \/ value # run.assignments[variable]]
    /\ UNCHANGED <<Objects, str_constraints, dom, marks, lastPop, variables, declared, pconstraints, solver, prev>>

\* the end of a pass: `if not conflicted: return assignments`, else the next
\* pass; stalled records that some pass ended conflicted with no value changed
MinConflictsEndPass ==
    /\ run.pc = "pass" /\ run.lst = {}
    /\ run' = IF ~run.conflicted
              THEN [run EXCEPT !.pc = "done", !.result = DictResult(run.assignments),
                               !.found = TRUE, !.passes = @ + 1]
              ELSE LoopHead([run EXCEPT !.step = @ + 1, !.passes = @ + 1,
                                        !.stalled = @ \/ ~run.moved], variables)
    /\ UNCHANGED <<Objects, str_constraints, dom, marks, lastPop, variables, declared, pconstraints, solver, prev>>

Solvers ==
    {[cls |-> "RecursiveBacktrackingSolver", forwardcheck |-> fc, steps |-> 0] : fc \in BOOLEAN}
    \cup {[cls |-> "ParallelSolver", forwardcheck |-> FALSE, steps |-> 0]}
    \cup {[cls |-> "MinConflictsSolver", forwardcheck |-> FALSE, steps |-> n] : n \in {0, MaxSteps}}

InitSolvers ==
    /\ dom = Domain(<<1>>) /\ marks = <<>> /\ lastPop = NoPop
    /\ variables = <<>> /\ declared = <<>> /\ pconstraints = <<>>
    /\ solver \in Solvers
    /\ run = Idle /\ prev = Idle
    /\ NoObjects

NextSolvers ==
    \/ \E domain \in DomainChoices : addVariable(domain)
    \/ \E k \in 1..Len(ConstraintChoices) : addConstraint(k)
    \/ \E entry \in Entries : Invoke(entry)
    \/ MinConflictsKeep
    \/ MinConflictsRepair
    \/ MinConflictsEndPass
    \/ RecSelect
    \/ RecTry
    \/ RecCheck
    \/ RecReturn

SpecSolvers == InitSolvers /\ [][NextSolvers]_vars

----------------------------------------------------------------------------
(* Problem.addVariable / addVariables by object identity: heap holds the    *)
(* Domain objects, refs is Problem._variables, held are the objects the     *)
(* caller built with Domain(...).  The object made for variable v has       *)
(* identity v, the caller's objects have the identities -1, -2, ...         *)

MaxRefs == 2          \* variables registered in the object-identity view
MaxHeld == 1          \* Domain objects the caller builds

\* what a caller passes as a domain: a list, a Domain instance, or an object
\* that is neither a Domain nor has __getitem__ (a set, an int)
DomainArgs == {<<1, 2>>, <<>>}

Arguments ==
    {[kind |-> "list", values |-> s] : s \in DomainArgs}
    \cup {[kind |-> "Domain", id |-> i] : i \in held}
    \cup {[kind |-> "other"]}

\* lines 105-111 with the argument stored as it is: no deepcopy of a Domain
OwnShared(st, variable, domain) ==
    CASE domain.kind = "Domain" -> [heap |-> st.heap, id |-> domain.id, raised |-> None]
      [] domain.kind = "list"   -> [heap |-> Bind(st.heap, variable, Domain(domain.values)),
                                    id |-> variable, raised |-> None]
      [] OTHER                  -> [heap |-> st.heap, id |-> 0, raised |-> "TypeError"]

\* lines 105-111: copy.deepcopy(domain) of a Domain instance, Domain(domain)
\* of an object with __getitem__, TypeError otherwise
Own(st, variable, domain) ==
    CASE domain.kind = "Domain" -> [heap |-> Bind(st.heap, variable, st.heap[domain.id]),
                                    id |-> variable, raised |-> None]
      [] domain.kind = "list"   -> [heap |-> Bind(st.heap, variable, Domain(domain.values)),
                                    id |-> variable, raised |-> None]
      [] OTHER                  -> [heap |-> st.heap, id |-> 0, raised |-> "TypeError"]

\* Problem.addVariable storing the domain before `if not domain`
AddVariableStoreFirst(st, variable, domain) ==
    IF variable \in DOMAIN st.refs THEN [st EXCEPT !.raised = "ValueError"]
    ELSE LET own == Own(st, variable, domain)
         IN  IF own.raised # None THEN [st EXCEPT !.raised = own.raised]
             ELSE [heap |-> own.heap, refs |-> Bind(st.refs, variable, own.id),
                   raised |-> IF own.heap[own.id].values = <<>> THEN "ValueError" ELSE None]

\* Problem.addVariable(variable, domain) on st = [heap, refs, raised]
AddVariable(st, variable, domain) ==
    IF variable \in DOMAIN st.refs THEN [st EXCEPT !.raised = "ValueError"]
    ELSE LET own == Own(st, variable, domain)
         IN  IF own.raised # None THEN [st EXCEPT !.raised = own.raised]
             ELSE IF own.heap[own.id].values = <<>> THEN [st EXCEPT !.raised = "ValueError"]
             ELSE [heap |-> own.heap, refs |-> Bind(st.refs, variable, own.id),
                   raised |-> None]

RECURSIVE AddVariables(_, _, _)
\* Problem.addVariables(variables, domain): addVariable for each, up to the
\* first that raises
AddVariables(st, vs, domain) ==
    IF vs = <<>> \/ st.raised # None THEN st
    ELSE AddVariables(AddVariable(st, Head(vs), domain), Tail(vs), domain)

\* the caller's Domain(values)
NewDomain(values) ==
    /\ Cardinality(held) < MaxHeld
    /\ heap' = Bind(heap, -(Cardinality(held) + 1), Domain(values))
    /\ held' = held \cup {-(Cardinality(held) + 1)}
    /\ lastCall' = [op |-> "Domain", values |-> values, raised |-> None]
    /\ UNCHANGED <<refs, str_constraints, dom, marks, lastPop, variables, declared, pconstraints, solver, run, prev>>

AddVariableCall(variable, domain) ==
    /\ \E st \in {AddVariable([heap |-> heap, refs |-> refs, raised |-> None],
                              variable, domain)} :
          /\ heap' = st.heap /\ refs' = st.refs
          /\ lastCall' = [op |-> "addVariable", variables |-> <<variable>>,
                      domain |-> domain, raised |-> st.raised]
    /\ UNCHANGED <<held, str_constraints, dom, marks, lastPop, variables, declared, pconstraints, solver, run, prev>>

AddVariablesCall(vs, domain) ==
    /\ \E st \in {AddVariables([heap |-> heap, refs |-> refs, raised |-> None],
                               vs, domain)} :
          /\ heap' = st.heap /\ refs' = st.refs
          /\ lastCall' = [op |-> "addVariables", variables |-> vs,
                      domain |-> domain, raised |-> st.raised]
    /\ UNCHANGED <<held, str_constraints, dom, marks, lastPop, variables, declared, pconstraints, solver, run, prev>>

\* what preprocessing and search do to one domain, one operation at a time:
\* hide or remove its first value while nothing is hidden, give the hidden
\* value back
Mutations(d) ==
    IF d.hidden # <<>> THEN {resetState(d)}
    ELSE IF Len(d.values) < 2 THEN {}
    ELSE {hideValue(d, d.values[1]), remove(d, d.values[1])}

Mutate(variable) ==
    /\ variable \in DOMAIN refs
    /\ \E d \in Mutations(heap[refs[variable]]) :
          /\ heap' = [heap EXCEPT ![refs[variable]] = d]
    /\ lastCall' = [op |-> "mutate", variables |-> <<variable>>]
    /\ UNCHANGED <<held, refs, str_constraints, dom, marks, lastPop, variables, declared, pconstraints, solver, run, prev>>

InitRefs ==
    /\ dom = Domain(<<1>>) /\ marks = <<>> /\ lastPop = NoPop
    /\ variables = <<>> /\ declared = <<>> /\ pconstraints = <<>>
    /\ solver = [cls |-> "OptimizedBacktrackingSolver", forwardcheck |-> TRUE]
    /\ run = Idle /\ prev = Idle
    /\ NoObjects

NextRefs ==
    \/ \E values \in DomainArgs : NewDomain(values)
    \/ \E variable \in 1..MaxRefs, domain \in Arguments : AddVariableCall(variable, domain)
    \/ \E v, w \in 1..MaxRefs, domain \in Arguments : AddVariablesCall(<<v, w>>, domain)
    \/ \E variable \in 1..MaxRefs : Mutate(variable)

SpecRefs == InitRefs /\ [][NextRefs]_vars

----------------------------------------------------------------------------
(* Problem with string constraints, reset and getSolutionsOrderedList; a    *)
(* solve call is one step here.  In the strings, a is variable 1 and b is   *)
(* variable 2.                                                              *)

StrChoices == <<"a < b", "a <= 0">>

\* compile_to_constraints([constraint], domains) for the strings of
\* StrChoices: a comparison of two variables becomes a FunctionConstraint
\* over them (ValueError when one of them is not a variable of the problem),
\* a variable compared with a number becomes a MaxSumConstraint
compile_to_constraints(constraint, domains) ==
    CASE constraint = "a < b" ->
            IF {1, 2} \subseteq DOMAIN domains
            THEN [err |-> FALSE, parsed |-> <<Entry(FunctionConstraint("lt"), <<1, 2>>)>>]
            ELSE [err |-> TRUE, parsed |-> <<>>]
      [] constraint = "a <= 0" ->
            [err |-> FALSE, parsed |-> <<Entry(MaxSumConstraint(0, <<>>), <<1>>)>>]

\* lines 272-278 of _getArgs: every string constraint is parsed and what it
\* yields is appended to self._constraints, up to the first that raises
ParseStrings(domains, registered, strs) ==
    LET bad == {i \in 1..Len(strs) : compile_to_constraints(strs[i].text, domains).err}
        stop == IF bad = {} THEN Len(strs) + 1
                ELSE CHOOSE i \in bad : \A j \in bad : i <= j
    IN  [err |-> bad # {},
         registered |-> registered \o
             [i \in 1..(stop - 1) |-> compile_to_constraints(strs[i].text, domains).parsed[1]]]

\* the solver's getSolutions on compiled arguments, or what Problem returns
\* without calling it
SolveArgs(args, registered) ==
    IF args.err
    THEN [r |-> [pc |-> "raised", entry |-> "getSolutions"], domains |-> args.domains,
          registered |-> registered]
    ELSE IF args.none
    THEN [r |-> [Finish(StartRun(solver.cls, solver.forwardcheck, "getSolutions", args))
                    EXCEPT !.constraints = <<>>, !.vconstraints = <<>>,
                           !.sorted_variables = <<>>, !.impl = "skipped"],
          domains |-> args.domains, registered |-> registered]
    ELSE CHOOSE end \in
            {RunToEnd(start, args.domains) @@ [registered |-> registered] :
                start \in {StartRun(solver.cls, solver.forwardcheck, "getSolutions", args)}} : TRUE

\* Problem.getSolutions as one step: _getArgs with the string constraints,
\* then the solver's getSolutions
getSolutionsCall(domains, registered, strs) ==
    CHOOSE end \in
        {IF parse.err
         THEN [r |-> [pc |-> "raised", entry |-> "getSolutions"], domains |-> domains,
               registered |-> parse.registered]
         ELSE CHOOSE e \in {SolveArgs(args, parse.registered) :
                              args \in {getArgs(domains, parse.registered)}} : TRUE :
            parse \in {ParseStrings(domains, registered, strs)}} : TRUE

\* lines 240-243 of getSolutionsOrderedList: every value of the solution in
\* dict order when order has one element, itemgetter(*order) otherwise
OrderedList(solutions, orders, order) ==
    [i \in 1..Len(solutions) |->
        IF Len(order) = 1
        THEN [j \in 1..Len(orders[i]) |-> solutions[i][orders[i][j]]]
        ELSE [j \in 1..Len(order) |-> solutions[i][order[j]]]]

\* the lists of distinct registered variables
Orders ==
    {order \in UNION {[1..n -> DOMAIN variables] : n \in 1..Cardinality(DOMAIN variables)} :
        \A i, j \in 1..Len(order) : i # j => order[i] # order[j]}

\* the record of a finished call: what it was, what it saw, what it returned
Ended(call, op, order) ==
    call.r @@ [op |-> op, order |-> order, registered |-> pconstraints,
               strs |-> str_constraints, fresh |-> variables]

\* Problem.getSolutions()
GetSolutions ==
    /\ Returned(run) /\ DOMAIN variables # {}
    /\ Len(pconstraints) <= MaxConstraints
    /\ \E call \in {getSolutionsCall(variables, pconstraints, str_constraints)} :
          /\ run' = Ended(call, "getSolutions", <<>>)
          /\ variables' = call.domains
          /\ pconstraints' = call.registered
    /\ UNCHANGED <<Objects, str_constraints, dom, marks, lastPop, declared, solver, prev>>

\* Problem.getSolutionsOrderedList(order)
GetSolutionsOrderedList ==
    /\ Returned(run) /\ DOMAIN variables # {}
    /\ Len(pconstraints) <= MaxConstraints
    /\ \E call \in {getSolutionsCall(variables, pconstraints, str_constraints)} :
       \E order \in Orders :
          /\ run' = IF call.r.pc = "raised"
                    THEN Ended(call, "getSolutionsOrderedList", order)
                    ELSE [Ended(call, "getSolutionsOrderedList", order) EXCEPT
                             !.result = ListResult(OrderedList(call.r.solutions, call.r.orders, order))]
          /\ variables' = call.domains
          /\ pconstraints' = call.registered
    /\ UNCHANGED <<Objects, str_constraints, dom, marks, lastPop, declared, solver, prev>>

\* Problem.addConstraint(constraint) with a string: stale is a ghost, set by
\* reset on the strings registered before it
AddStringConstraint(k) ==
    /\ Returned(run)
    /\ Len(pconstraints) + Len(str_constraints) < MaxConstraints
    /\ \A i \in 1..Len(str_constraints) : str_constraints[i].text # StrChoices[k]
    /\ str_constraints' = Append(str_constraints, [text |-> StrChoices[k], stale |-> FALSE])
    /\ run' = Idle
    /\ UNCHANGED <<Objects, dom, marks, lastPop, variables, declared, pconstraints, solver, prev>>

\* Problem.addConstraint(constraint, variables) with a constraint object
AddConstraint(k) ==
    /\ \A i \in 1..Len(pconstraints) : In(pconstraints[i], ConstraintChoices)
    /\ Len(pconstraints) + Len(str_constraints) < MaxConstraints
    /\ addConstraint(k)

\* Problem.reset(): the constraints and the variables are cleared
reset ==
    /\ Returned(run)
    /\ pconstraints' = <<>>
    /\ variables' = <<>> /\ declared' = <<>>
    /\ str_constraints' = [i \in 1..Len(str_constraints) |->
                              [str_constraints[i] EXCEPT !.stale = TRUE]]
    /\ run' = Idle
    /\ UNCHANGED <<Objects, dom, marks, lastPop, solver, prev>>

NextCalls ==
    \/ \E domain \in DomainChoices : addVariable(domain)
    \/ \E k \in 1..Len(ConstraintChoices) : AddConstraint(k)
    \/ \E k \in 1..Len(StrChoices) : AddStringConstraint(k)
    \/ reset
    \/ GetSolutions
    \/ GetSolutionsOrderedList

InitCalls ==
    /\ dom = Domain(<<1>>) /\ marks = <<>> /\ lastPop = NoPop
    /\ variables = <<>> /\ declared = <<>> /\ pconstraints = <<>>
    /\ solver \in [cls : {"BacktrackingSolver", "OptimizedBacktrackingSolver"},
                   forwardcheck : {TRUE}]
    /\ run = Idle /\ prev = Idle
    /\ NoObjects

SpecCalls == InitCalls /\ [][NextCalls]_vars

----------------------------------------------------------------------------
(* SomeNotInSetConstraint (constraint/constraints.py), called directly on   *)
(* partial and complete assignments of MaxVars variables.                   *)

MaxN == 2             \* largest `n` a SomeNotInSetConstraint is built with

SomeNotInSetConstraint(set, n, exact) == [set |-> set, n |-> n, exact |-> exact]

\* found: the assigned variables whose value is not in the set
Found(c, cvars, assignments) ==
    Cardinality({i \in 1..Len(cvars) :
        cvars[i] \in DOMAIN assignments /\ assignments[cvars[i]] \notin c.set})

\* a window test that forgets the unassigned variables
WindowAssignedOnly(c, found, missing) ==
    IF c.exact THEN found = c.n ELSE found >= c.n

\* the count tests of __call__: with variables missing, n must lie between
\* found and missing + found (at most missing + found when not exact); with
\* none missing, found must be n (at least n when not exact)
Window(c, found, missing) ==
    IF missing > 0
    THEN IF c.exact THEN found <= c.n /\ c.n <= missing + found
         ELSE c.n <= missing + found
    ELSE IF c.exact THEN found = c.n ELSE found >= c.n

\* for value in domain[:]: if value in set: domain.hideValue(value)
RECURSIVE HideInSet(_, _, _)
HideInSet(vals, d, set) ==
    IF vals = <<>> THEN d
    ELSE HideInSet(Tail(vals), IF Head(vals) \in set THEN hideValue(d, Head(vals)) ELSE d, set)

\* the forward check: every unassigned variable loses its values in the set,
\* in the order of `variables`, up to the first domain left empty
RECURSIVE AllOutside(_, _, _, _)
AllOutside(c, rest, domains, assignments) ==
    IF rest = <<>> THEN [ok |-> TRUE, domains |-> domains]
    ELSE IF Head(rest) \in DOMAIN assignments
    THEN AllOutside(c, Tail(rest), domains, assignments)
    ELSE CHOOSE res \in
            {IF d.values = <<>>
             THEN [ok |-> FALSE, domains |-> [domains EXCEPT ![Head(rest)] = d]]
             ELSE AllOutside(c, Tail(rest), [domains EXCEPT ![Head(rest)] = d], assignments) :
                d \in {HideInSet(domains[Head(rest)].values, domains[Head(rest)], c.set)}} : TRUE

\* SomeNotInSetConstraint.__call__(variables, domains, assignments, forwardcheck)
SomeNotInSetCall(c, cvars, domains, assignments, forwardcheck) ==
    LET found == Found(c, cvars, assignments)
        missing == Len(Missing(cvars, assignments))
    IN  IF ~Window(c, found, missing) THEN [ok |-> FALSE, domains |-> domains]
        ELSE IF missing > 0 /\ forwardcheck /\ c.n - found = missing
        THEN AllOutside(c, cvars, domains, assignments)
        ELSE [ok |-> TRUE, domains |-> domains]

\* the domains and the sets the constraint is tried with
SomeDomains == {<<1, 2>>, <<3>>, <<1, 3>>}
SomeSets == {{}, {1, 2}}

SomeConstraints ==
    {SomeNotInSetConstraint(set, n, exact) : set \in SomeSets, n \in 0..MaxN, exact \in BOOLEAN}

\* one more variable of the assignment gets a value of its domain
AssignSome(variable, value) ==
    /\ run.pc = "assigning"
    /\ variable \notin DOMAIN run.assignments
    /\ In(value, variables[variable].values)
    /\ run' = [run EXCEPT !.assignments = Bind(@, variable, value)]
    /\ lastCall' = NoCall
    /\ UNCHANGED <<heap, held, refs, str_constraints, dom, marks, lastPop, variables,
                   declared, pconstraints, solver, prev>>

\* constraint(variables, domains, assignments, forwardcheck) on every variable
CallSome(c, forwardcheck) ==
    /\ run.pc = "assigning"
    /\ \E res \in {SomeNotInSetCall(c, AllVariables(variables), variables,
                                    run.assignments, forwardcheck)} :
          /\ variables' = res.domains
          /\ lastCall' = [op |-> "SomeNotInSetConstraint", c |-> c,
                          forwardcheck |-> forwardcheck, assignments |-> run.assignments,
                          domains |-> variables, ok |-> res.ok]
    /\ UNCHANGED <<heap, held, refs, str_constraints, dom, marks, lastPop,
                   declared, pconstraints, solver, run, prev>>

InitSome ==
    /\ dom = Domain(<<1>>) /\ marks = <<>> /\ lastPop = NoPop
    /\ declared \in [1..MaxVars -> SomeDomains]
    /\ variables = [v \in 1..MaxVars |-> Domain(declared[v])]
    /\ pconstraints = <<>>
    /\ solver = [cls |-> "OptimizedBacktrackingSolver", forwardcheck |-> TRUE]
    /\ run = [pc |-> "assigning", assignments |-> <<>>] /\ prev = Idle
    /\ NoObjects

NextSome ==
    \/ \E variable \in 1..MaxVars, value \in 1..3 : AssignSome(variable, value)
    \/ \E c \in SomeConstraints, forwardcheck \in BOOLEAN : CallSome(c, forwardcheck)

SpecSome == InitSome /\ [][NextSome]_vars

----------------------------------------------------------------------------
(* Properties of the stand-alone Domain (SpecDomain) *)

\* C5: after each popState of a well-nested pushState / hideValue / popState
\* sequence, the live values are the same set as the live values just before
\* the matching pushState.
C5_PopRestoresLive ==
    lastPop.pc = "popped" => lastPop.after = lastPop.before

\* a popState nested inside another checkpoint gave hidden values back
C5_Witness ==
    lastPop.pc = "popped" /\ lastPop.hid /\ lastPop.pending > 0

----------------------------------------------------------------------------
(* Properties of Problem and the solvers (Spec) *)

\* the assignments a finished call handed to its caller
Results(r) ==
    IF r.entry = "getSolutions" THEN Range(Result(r))
    ELSE IF r.solutions = <<>> THEN {} ELSE {Result(r)}

(* What a problem means, independently of the search: the complete          *)
(* assignments over the declared domains that every registered constraint   *)
(* accepts (the class docstrings of constraint/constraints.py).             *)

\* every registered variable is bound to a value it was declared with
Complete(a) ==
    /\ DOMAIN a = DOMAIN declared
    /\ \A v \in DOMAIN declared : In(a[v], declared[v])

\* the complete assignments over the declared domains
CompleteAssignments ==
    {a \in [DOMAIN declared -> UNION {Range(declared[v]) : v \in DOMAIN declared}] :
        Complete(a)}

\* what a registered (constraint, variables) pair means for a complete assignment
Accepts(e, a) ==
    LET vs == IF e.vars = <<>> THEN AllVariables(declared) ELSE e.vars
        weight(i) == IF e.c.mult # <<>> THEN e.c.mult[i] ELSE 1
        total == SumSeq([i \in 1..Len(vs) |-> a[vs[i]] * weight(i)])
    IN  CASE e.c.kind = "Function"         -> func(e.c.fn, [i \in 1..Len(vs) |-> a[vs[i]]])
          [] e.c.kind = "AllDifferent"     -> \A i, j \in 1..Len(vs) : i # j => a[vs[i]] # a[vs[j]]
          [] e.c.kind = "ExactSum"         -> total = e.c.bound
          [] e.c.kind = "MaxSum"           -> total <= e.c.bound
          [] e.c.kind = "VariableExactSum" ->
                a[e.c.target] = SumSeq([i \in 1..Len(e.c.sum_vars) |-> a[e.c.sum_vars[i]]])

\* the solutions of the problem as registered
Solutions ==
    {a \in CompleteAssignments : \A i \in 1..Len(pconstraints) : Accepts(pconstraints[i], a)}

\* a getSolutions call on a problem with variables has returned
ReturnedAll == run.pc = "done" /\ run.entry = "getSolutions" /\ DOMAIN declared # {}

\* a getSolutions call that went into the solver has returned
SolvedAll == ReturnedAll /\ run.impl # "skipped"

\* the compiled arguments the current call handed to the solver
Compiled ==
    [domains |-> run.entered, constraints |-> run.constraints,
     vconstraints |-> run.vconstraints]

\* C1: every assignment a solve call returns binds every registered variable
\* to a value of its declared domain and is accepted by every constraint
\* registered at the time of the call, also by those added after an earlier call.
C1_ReturnedAreSolutions ==
    run.pc = "done" => Results(run) \subseteq Solutions

\* C2: with FunctionConstraints only, getSolutions returns a duplicate-free
\* list holding exactly the complete assignments every predicate is true of.
C2_PredicateSolutions ==
    (ReturnedAll /\ \A i \in 1..Len(pconstraints) : pconstraints[i].c.kind = "Function")
        => /\ NoDuplicates(Result(run))
           /\ Range(Result(run)) = Solutions

\* C3: getSolutions with forward checking and getSolutions without it, same
\* solver class and same problem, return the same set of solutions.
C3_ForwardCheckEquivalence ==
    SolvedAll =>
        Range(Result(run))
          = Range(Result(Solve(run.cls, ~run.forwardcheck, "getSolutions", Compiled).r))

\* C4: BacktrackingSolver, OptimizedBacktrackingSolver and
\* RecursiveBacktrackingSolver return the same set of solutions from
\* getSolutions for the same problem.
C4_SolverEquivalence ==
    SolvedAll =>
        \A cls \in Classes :
            Range(Result(run))
              = Range(Result(Solve(cls, run.forwardcheck, "getSolutions", Compiled).r))

\* C6: when getSolutions of a solver returns, every domain has exactly the
\* live values it had right after _getArgs, no value hidden and no checkpoint
\* left on its state stack.
C6_GetSolutionsRestoresDomains ==
    SolvedAll =>
        \A v \in DOMAIN variables :
            /\ variables[v].hidden = <<>>
            /\ variables[v].states = <<>>
            /\ Range(variables[v].values) = Range(run.entered[v].values)
            /\ Len(variables[v].values) = Len(run.entered[v].values)

\* a forward-checking getSolutions has returned solutions after hiding and
\* giving back values (the restored values sit at the end of the list)
C6_Witness ==
    /\ SolvedAll /\ run.forwardcheck /\ Result(run) # <<>>
    /\ \E v \in DOMAIN variables : variables[v].values # run.entered[v].values

\* C7: whenever a solver entry point (getSolution or getSolutions) has
\* returned, no domain holds an unmatched checkpoint or a hidden value.
C7_NoPendingCheckpoint ==
    run.pc = "done" =>
        \A v \in DOMAIN variables :
            variables[v].hidden = <<>> /\ variables[v].states = <<>>

\* C8: getSolution returns None exactly when getSolutions returns an empty
\* list, and otherwise the first element of the list getSolutions returns
\* for the same problem and solver.
C8_FirstOfAll ==
    (ReturnedAll /\ prev.pc = "done" /\ prev.entry = "getSolution")
        => /\ prev.found <=> Result(run) # <<>>
           /\ prev.found => Result(prev) = Result(run)[1]

\* C9: with ExactSumConstraint(S, w) as the only constraint, getSolutions
\* returns exactly the complete assignments whose weighted sum equals S.
C9_ExactSumSolutions ==
    (ReturnedAll /\ Len(pconstraints) = 1 /\ pconstraints[1].c.kind = "ExactSum")
        => Range(Result(run)) = Solutions

\* C10: with MaxSumConstraint(S) as the only constraint, getSolutions returns
\* exactly the complete assignments whose sum is at most S.
C10_MaxSumSolutions ==
    (ReturnedAll /\ Len(pconstraints) = 1 /\ pconstraints[1].c.kind = "MaxSum")
        => Range(Result(run)) = Solutions

\* C11: with an unweighted VariableExactSumConstraint(target, sum_vars) as the
\* only constraint, getSolutions of the default solver
\* (OptimizedBacktrackingSolver, forward checking on) returns exactly the
\* complete assignments whose target value equals the sum of the sum_vars'
\* values, whichever variable the ordering heuristic binds first.
C11_VariableExactSumSolutions ==
    (/\ ReturnedAll
     /\ Len(pconstraints) = 1 /\ pconstraints[1].c.kind = "VariableExactSum"
     /\ solver = [cls |-> "OptimizedBacktrackingSolver", forwardcheck |-> TRUE])
        => Range(Result(run)) = Solutions

----------------------------------------------------------------------------
(* Properties of the other solver classes (SpecSolvers) *)

\* the solver's method was called: _getArgs neither raised nor returned None
Called(r) == r.pc # "idle" /\ r.impl \notin {"compile", "skipped"}

\* the entry points the solver classes are documented not to support
Unsupported ==
    {<<"MinConflictsSolver", "getSolutions">>, <<"MinConflictsSolver", "getSolutionIter">>,
     <<"RecursiveBacktrackingSolver", "getSolutionIter">>,
     <<"ParallelSolver", "getSolution">>, <<"ParallelSolver", "getSolutionIter">>}

\* C12: calling an entry point the solver does not support (getSolutions or
\* getSolutionIter of MinConflictsSolver, getSolutionIter of
\* RecursiveBacktrackingSolver, getSolution or getSolutionIter of
\* ParallelSolver) raises NotImplementedError and hands back no result.
C12_UnsupportedRaises ==
    (Called(run) /\ <<solver.cls, run.entry>> \in Unsupported)
        => /\ run.pc = "raised"
           /\ run.error = "NotImplementedError"
           /\ "result" \notin DOMAIN run

\* ParallelSolver.getSolution, the one override that raises, was called on a
\* problem with a constraint
C12_Witness ==
    /\ Called(run) /\ run.pc = "raised"
    /\ solver.cls = "ParallelSolver" /\ run.entry = "getSolution"
    /\ pconstraints # <<>>

\* MinConflictsSolver.getSolution has returned
MinConflictsReturned ==
    solver.cls = "MinConflictsSolver" /\ Called(run) /\ run.pc = "done"

\* the call returned an assignment rather than None
ReturnedAssignment == MinConflictsReturned /\ run.found

\* C19 (first part): an assignment returned by MinConflictsSolver.getSolution
\* binds every variable to a value of its domain and is accepted by every
\* constraint of the problem.
C19_ReturnedAssignmentValid ==
    ReturnedAssignment =>
             /\ DOMAIN Result(run) = DOMAIN declared
             /\ \A v \in DOMAIN declared : In(Result(run)[v], declared[v])
             /\ \A i \in 1..Len(pconstraints) : Accepts(pconstraints[i], Result(run))

\* C19 as stated: moreover None is returned only after `steps` passes, each of
\* which changed the value of at least one variable.
C19_NoneAfterChangingPasses ==
    /\ C19_ReturnedAssignmentValid
    /\ (MinConflictsReturned /\ ~ReturnedAssignment)
          => (Result(run) = None /\ run.passes = run.steps /\ ~run.stalled)

\* C19 as the code has it: None is returned only after `steps` passes, each of
\* which found at least one variable in conflict (and gave it one of its
\* least-conflicting values, possibly the one it had).
C19_NoneAfterConflictedPasses ==
    /\ C19_ReturnedAssignmentValid
    /\ (MinConflictsReturned /\ ~ReturnedAssignment)
          => (Result(run) = None /\ run.passes = run.steps /\ run.step = run.passes)

\* None came back after MaxSteps passes, the last of which changed no value
C19_Witness ==
    /\ MinConflictsReturned /\ ~ReturnedAssignment
    /\ run.steps = MaxSteps /\ run.stalled

\* an assignment came back for a problem with a constraint
C19_WitnessAssignment ==
    ReturnedAssignment /\ pconstraints # <<>> /\ run.passes > 1

----------------------------------------------------------------------------
(* Properties of addVariable / addVariables by object identity (SpecRefs) *)

\* the call has a reason to fail: the variable is registered already, the
\* domain has no value, or it is neither a Domain nor indexable
MustFail(variable, domain) ==
    \/ variable \in DOMAIN refs
    \/ domain.kind = "list" /\ domain.values = <<>>
    \/ domain.kind = "Domain" /\ heap[domain.id].values = <<>>
    \/ domain.kind = "other"

\* C13: addVariable(v, domain) raises when v is already registered, when the
\* domain is empty, or when the domain is neither a Domain nor an indexable
\* sequence, and then leaves the variable-to-domain map as it was.
C13_AddVariableRejects ==
    [][(lastCall'.op = "addVariable"
          /\ MustFail(lastCall'.variables[1], lastCall'.domain))
        => /\ lastCall'.raised # None
           /\ refs' = refs
           /\ \A v \in DOMAIN refs : heap'[refs[v]] = heap[refs[v]]]_vars

\* an empty Domain instance was refused for a new variable while another
\* variable was registered
C13_Witness ==
    /\ lastCall.op = "addVariable" /\ lastCall.raised = "ValueError"
    /\ lastCall.domain.kind = "Domain"
    /\ lastCall.variables[1] \notin DOMAIN refs
    /\ DOMAIN refs # {}

\* C14: constructing a Domain from an empty sequence fails with an error
\* instead of producing a Domain object with no values.
C14_EmptyDomainRejected ==
    (lastCall.op = "Domain" /\ lastCall.values = <<>>) => lastCall.raised # None

\* C15: every registered variable owns its own Domain object: hiding,
\* removing or restoring a value in one variable's domain changes neither
\* another variable's domain nor a Domain object the caller built and passed in.
C15_DomainsNotShared ==
    [][lastCall'.op = "mutate"
        => /\ \A w \in DOMAIN refs \ {lastCall'.variables[1]} :
                 heap'[refs[w]] = heap[refs[w]]
           /\ \A id \in held : heap'[id] = heap[id]]_vars

\* two variables registered, one of them changed, the other still equal to
\* the Domain object the caller built
C15_Witness ==
    /\ lastCall.op = "mutate"
    /\ \E id \in held : \E w \in DOMAIN refs \ {lastCall.variables[1]} :
          /\ heap[id].values # <<>>
          /\ heap[refs[w]] = heap[id]
          /\ heap[refs[lastCall.variables[1]]] # heap[id]

----------------------------------------------------------------------------
(* Properties of Problem and the solvers (Spec), continued *)

\* a solve call has ended and preprocessing has left some domain with no
\* value at all
CompiledEmpty ==
    /\ run.pc \in {"done", "raised"}
    /\ \E v \in DOMAIN variables :
          variables[v].values = <<>> /\ variables[v].hidden = <<>>

\* C17: whenever preprocessing during the compile step leaves some variable's
\* domain empty, whichever constraints are registered and in whichever order,
\* no error is raised: getSolution returns None and getSolutions returns an
\* empty list.
C17_EmptyDomainNoError ==
    CompiledEmpty
        => /\ run.pc = "done"
           /\ Result(run) = IF run.entry = "getSolutions" THEN <<>> ELSE None

----------------------------------------------------------------------------
(* Properties of Problem's calls taken whole (SpecCalls) *)

\* C16: getSolutionsOrderedList(order) returns one tuple per solution, and the
\* j-th component of the i-th tuple is the value the i-th solution gives to
\* order[j], whatever the length of order
C16_OrderedTuples ==
    (run.pc = "done" /\ run.op = "getSolutionsOrderedList")
        => Result(run) = [i \in 1..Len(run.solutions) |->
                            [j \in 1..Len(run.order) |-> run.solutions[i][run.order[j]]]]

\* the problem as it would be freshly constructed with the variables added
\* since the last reset
Fresh == [v \in DOMAIN declared |-> Domain(declared[v])]

\* C18: a solve of a problem whose constraints were all registered before the
\* last reset returns what the same solve returns on a fresh Problem with the
\* same variables and no constraint
C18_ResetClearsAll ==
    (run.pc \in {"done", "raised"} /\ run.registered = <<>>
        /\ \A i \in 1..Len(run.strs) : run.strs[i].stale)
        => /\ run.pc = "done"
           /\ run.solutions =
                Solve(solver.cls, solver.forwardcheck, "getSolutions",
                      getArgs(Fresh, <<>>)).r.solutions

----------------------------------------------------------------------------
(* Properties of SomeNotInSetConstraint (SpecSome) *)

\* the assignment meets the constraint: the number of variables whose value is
\* not in the set is at least n, exactly n when exact is set
Meets(c, a) ==
    LET count == Cardinality({v \in DOMAIN a : a[v] \notin c.set})
    IN  IF c.exact THEN count = c.n ELSE count >= c.n

\* the complete assignments that extend a with values of the domains
Completions(a, domains) ==
    {b \in [DOMAIN domains -> UNION {Range(domains[v].values) : v \in DOMAIN domains}
                                  \cup {a[v] : v \in DOMAIN a}] :
        \A v \in DOMAIN domains :
            IF v \in DOMAIN a THEN b[v] = a[v] ELSE In(b[v], domains[v].values)}

SomeCalled == lastCall.op = "SomeNotInSetConstraint"

\* C20 as stated: the call returns false exactly when no choice of values for
\* the unassigned variables makes the number of variables whose value is not
\* in S at least n (exactly n when exact); on a complete assignment this is
\* whether the assignment itself has that number.
C20_FalseExactlyWhenInfeasible ==
    SomeCalled =>
        (~lastCall.ok <=>
            ~\E b \in Completions(lastCall.assignments, lastCall.domains) :
                Meets(lastCall.c, b))

\* C20 as the code has it: on a complete assignment the call accepts iff the
\* number is at least n (exactly n when exact); on a partial one it returns
\* false only when no choice of domain values for the unassigned variables
\* reaches that number, and without forward checking exactly when n is
\* outside what found and missing allow (found <= n <= found + missing when
\* exact, n <= found + missing otherwise).
C20_FalseOnlyWhenInfeasible ==
    SomeCalled =>
        LET a == lastCall.assignments
            c == lastCall.c
            found == Cardinality({v \in DOMAIN a : a[v] \notin c.set})
            missing == Cardinality(DOMAIN lastCall.domains \ DOMAIN a)
        IN  /\ missing = 0 => (lastCall.ok <=> Meets(c, a))
            /\ ~lastCall.ok =>
                  ~\E b \in Completions(a, lastCall.domains) : Meets(c, b)
            /\ (missing > 0 /\ ~lastCall.forwardcheck) =>
                  (lastCall.ok <=>
                      /\ c.n <= found + missing
                      /\ c.exact => found <= c.n)

\* an exact constraint on the empty set accepted a partial assignment that
\* already has n values outside the set
C20_Witness ==
    /\ SomeCalled /\ lastCall.ok
    /\ lastCall.c.exact /\ lastCall.c.set = {} /\ lastCall.c.n = 1
    /\ Cardinality(DOMAIN lastCall.assignments) = 1

----------------------------------------------------------------------------
(* Properties of the constraint calls made by the solvers (Spec) *)

\* the solver is about to run the constraint loop of the variable just bound
AtCheck == run.pc = "check"

\* the variable just bound, and the pushdomains handed over as forwardcheck
Bound == IF run.impl = "recursive" THEN run.frames[Len(run.frames)].variable ELSE run.variable
Pushed == IF run.impl = "recursive" THEN run.frames[Len(run.frames)].pushdomains
          ELSE run.pushdomains

\* the values a call took out of the variable's live values
HiddenBy(before, after, v) ==
    {value \in Range(before[v].values) : ~In(value, after[v].values)}

\* every value the forward-checking call of one constraint hides from an
\* unassigned variable is refused by the plain check of that constraint once
\* the value is assigned on top of the assignment (with the domains as they
\* were before the call, or as the call left them)
HidesOnlyRefused(e, domains, assignments) ==
    LET res == Call(e.c, e.vars, domains, assignments, TRUE)
    IN  \A v \in DOMAIN domains \ DOMAIN assignments :
        \A value \in HiddenBy(domains, res.domains, v) :
            \/ ~Call(e.c, e.vars, domains, Bind(assignments, v, value), FALSE).ok
            \/ ~Call(e.c, e.vars, res.domains, Bind(assignments, v, value), FALSE).ok

\* the same along the constraint loop, each call on the domains the calls
\* before it have left
RECURSIVE AllHideOnlyRefused(_, _, _)
AllHideOnlyRefused(cs, domains, assignments) ==
    \/ cs = <<>>
    \/ /\ HidesOnlyRefused(Head(cs), domains, assignments)
       /\ LET res == Call(Head(cs).c, Head(cs).vars, domains, assignments, TRUE)
          IN  res.ok => AllHideOnlyRefused(Tail(cs), res.domains, assignments)

\* C21: any value a forward-checking call of a constraint hides from an
\* unassigned variable's domain is one the same constraint's check returns
\* false for when that value is assigned to that variable next, on top of the
\* current assignment.
C21_ForwardCheckSound ==
    (AtCheck /\ Pushed # <<>>)
        => AllHideOnlyRefused(run.vconstraints[Bound], variables, run.assignments)

\* along the constraint loop, the call that returns false (the one the loop
\* breaks at) hands the domains back as it got them
RECURSIVE FalseLeavesDomains(_, _, _)
FalseLeavesDomains(cs, domains, assignments) ==
    \/ cs = <<>>
    \/ LET res == Call(Head(cs).c, Head(cs).vars, domains, assignments, TRUE)
       IN  IF res.ok THEN FalseLeavesDomains(Tail(cs), res.domains, assignments)
           ELSE res.domains = domains

\* C22: a constraint call with forward checking requested that returns false
\* has hidden no value: every domain is as it was before the call.
C22_FalseCallHidesNothing ==
    (AtCheck /\ Pushed # <<>>)
        => FalseLeavesDomains(run.vconstraints[Bound], variables, run.assignments)

----------------------------------------------------------------------------
(* Properties of the search of BacktrackingSolver (Spec) *)

\* the variables with no value, and the number of constraints of a variable
Unassigned(r, domains) == DOMAIN domains \ DOMAIN r.assignments
Degree(r, x) == Len(r.vconstraints[x])

\* C23: a Select step of BacktrackingSolver chooses an unassigned variable
\* that has the largest number of constraints among the unassigned variables
\* and, among the unassigned variables with that many, the fewest live
\* values; when every variable is assigned, the step emits the assignment as
\* a solution.
C23_SelectHeuristic ==
    [][(run.pc = "select" /\ run.cls = "BacktrackingSolver")
        => IF Unassigned(run, variables) # {}
           THEN /\ run'.pc = "try"
                /\ run'.variable \in Unassigned(run, variables)
                /\ \A x \in Unassigned(run, variables) :
                      /\ Degree(run, x) <= Degree(run, run'.variable)
                      /\ Degree(run, x) = Degree(run, run'.variable)
                            => Len(variables[run'.variable].values) <= Len(variables[x].values)
                /\ run'.assignments = run.assignments
           ELSE /\ run'.solutions = Append(run.solutions, run.assignments)
                /\ run'.pc \in {"emit", "done"}]_vars

\* a Select step has just chosen, with values already bound, a variable that
\* ties on degree with an unassigned variable of a lower number that has more
\* live values
C23_Witness ==
    /\ run.pc = "try" /\ run.cls = "BacktrackingSolver"
    /\ run.variable \notin DOMAIN run.assignments
    /\ run.assignments # <<>>
    /\ \E x \in Unassigned(run, variables) :
          /\ x < run.variable
          /\ Degree(run, x) = Degree(run, run.variable)
          /\ Len(variables[x].values) > Len(variables[run.variable].values)

----------------------------------------------------------------------------
(* Properties of the stand-alone Domain (SpecDomain), continued *)

\* C24: whatever sequence of values the Domain was built from and whatever
\* pushState, popState and hideValue calls were made on it, no value is both
\* among the live values and on the hidden stack.
C24_LiveAndHiddenDisjoint ==
    Range(dom.values) \cap Range(dom.hidden) = {}

----------------------------------------------------------------------------
(* Termination of the search (SpecFair): the call into the solver runs its
   loop to the return without being suspended, so every step that is enabled
   is eventually taken. *)

\* the steps of the loops of getSolutionIter, getSolutionsList and recursiveBacktracking
SearchStep ==
    \/ Select \/ Resume \/ Backtrack \/ Try \/ Check
    \/ RecSelect \/ RecTry \/ RecCheck \/ RecReturn

SpecFair == Init /\ [][Next]_vars /\ WF_vars(SearchStep)

\* a call of the iterative search (getSolutionIter / getSolutionsList) is under way
Searching ==
    run.pc \in {"select", "emit", "try", "check"} /\ run.impl \in {"iter", "list"}

\* one more than the number of values a domain of the call holds, hidden ones included
Base(r) ==
    2 + MaxOf([i \in 1..MaxVars |->
                 IF i \in DOMAIN r.entered
                 THEN Len(r.entered[i].values) + Len(r.entered[i].hidden) ELSE 0])

\* the values still to be tried at depth i of the search: the `values` lists
\* of the queue, then the one of the variable under test; the depth below a
\* value that was just bound counts as full until its variable is selected
Remaining(r, i) ==
    LET depth == Len(r.queue)
    IN  IF i <= depth THEN Len(r.queue[i].values)
        ELSE IF r.pc \in {"try", "check"} /\ i = depth + 1 THEN Len(r.values)
        ELSE IF r.pc = "check" /\ i = depth + 2 THEN Base(r) - 1
        ELSE IF r.pc = "select" /\ i = depth + 1 THEN Base(r) - 1
        ELSE 0

\* the lists of remaining values read as the digits of one number
RECURSIVE Digits(_, _)
Digits(r, i) ==
    IF i = 0 THEN 0 ELSE Digits(r, i - 1) * Base(r) + Remaining(r, i)

\* the position of a program counter inside one pass of the loops
PcRank(r) ==
    CASE r.pc = "check" -> 3 [] r.pc = "select" -> 2 [] r.pc = "emit" -> 1 [] OTHER -> 0

\* what is left of the search: the values not yet tried, then the depth, then
\* the position inside the pass
Rank(r) ==
    IF r.pc = "done" THEN 0
    ELSE 1 + (Digits(r, MaxVars + 2) * (MaxVars + 3)
                + Len(r.queue) + (IF r.pc \in {"try", "check"} THEN 1 ELSE 0)) * 4
           + PcRank(r)

\* a Try step takes the last of the remaining values of the variable under
\* test and leaves the variables chosen before and their remaining values alone
TriesOnce ==
    (Searching /\ run.pc = "try" /\ run.values # <<>>) =>
        /\ run'.values = DropTail_n(run.values, 1)
        /\ run'.assignments = Bind(run.assignments, run.variable, run.values[Len(run.values)])
        /\ run'.queue = run.queue

----------------------------------------------------------------------------
(* The parser of string constraints (constraint/parser.py), SpecParser.
   A string is a sequence of one-character strings; positions are 0-based
   as in Python. *)

\* the longest comparison chain (number of comparators) fed to the parser
MaxChain == 2

\* res[a:b]
Slice(res, a, b) ==
    LET lo == IF a < 0 THEN 0 ELSE a
        hi == IF b > Len(res) THEN Len(res) ELSE b
    IN  IF hi <= lo THEN <<>> ELSE SubSeq(res, lo + 1, hi)

\* str.strip() for the blank
RECURSIVE strip(_)
strip(res) ==
    IF res = <<>> THEN res
    ELSE IF res[1] = " " THEN strip(Tail(res))
    ELSE IF res[Len(res)] = " " THEN strip(DropTail_n(res, 1))
    ELSE res

\* pat occurs in res at 0-based position i
MatchAt(res, pat, i) ==
    i + Len(pat) <= Len(res) /\ Slice(res, i, i + Len(pat)) = pat

\* `pat in res`
Contains(res, pat) == \E i \in 0..Len(res) : MatchAt(res, pat, i)

\* the alternatives of the pattern "<=|>=|>|<", in the order they are tried
comparators == << <<"<", "=">>, <<">", "=">>, <<">">>, <<"<">> >>

\* re.finditer("|".join(comparators), res) from position i on: the (start, end)
\* of the matches, leftmost first, the first alternative that matches at a position
RECURSIVE finditer(_, _)
finditer(res, i) ==
    IF i >= Len(res) THEN <<>>
    ELSE LET hits == SelectSeq(comparators, LAMBDA pat : MatchAt(res, pat, i))
         IN  IF hits = <<>> THEN finditer(res, i + 1)
             ELSE <<[start |-> i, stop |-> i + Len(hits[1])]>> \o finditer(res, i + Len(hits[1]))

\* the restrictions cut out of one string by the loop over comparators_indices
SplitOne(res, comparators_indices) ==
    [index \in 1..Len(comparators_indices) |->
        LET prev_stop == IF index > 1 THEN comparators_indices[index - 1].stop + 1 ELSE 0
            next_stop == IF index < Len(comparators_indices)
                         THEN comparators_indices[index + 1].start ELSE Len(res)
        IN  strip(Slice(res, prev_stop, next_stop))]

\* to_multiple_restrictions(restrictions)
RECURSIVE to_multiple_restrictions(_)
to_multiple_restrictions(restrictions) ==
    IF restrictions = <<>> THEN <<>>
    ELSE LET res == restrictions[1]
             comparators_indices == finditer(res, 0)
             first == IF \/ Contains(res, <<" ", "a", "n", "d", " ">>)
                         \/ Contains(res, <<" ", "o", "r", " ">>)
                      THEN <<res>>
                      ELSE IF Len(comparators_indices) <= 1 THEN <<res>>
                      ELSE SplitOne(res, comparators_indices)
         IN  first \o to_multiple_restrictions(Tail(restrictions))

\* the operands and the comparators the strings are built from
Operands == {<<"a">>, <<"x", "*", "y">>}
Comparators == {<<"<", "=">>, <<">", "=">>, <<">">>, <<"<">>}
Joiners == {<<" ", "a", "n", "d", " ">>, <<" ", "o", "r", " ">>}
Blanks(n) == [i \in 1..n |-> " "]

\* e0 c1 e1 ... ck ek with pad[i][1] blanks before and pad[i][2] after comparator i
RECURSIVE Chain(_, _, _, _)
Chain(operands, comps, pad, k) ==
    IF k = 0 THEN operands[1]
    ELSE Chain(operands, comps, pad, k - 1)
            \o Blanks(pad[k][1]) \o comps[k] \o Blanks(pad[k][2]) \o operands[k + 1]

\* the variables the problem of an inequality chain declares (the keys of tune_params)
ChainParams == {<<"a">>, <<"x">>, <<"y">>}

\* the strings given to the parser: chains of k comparators with and without
\* blanks around each, and two comparisons joined by `and` / `or`
ChainInputs(k) ==
          {[kind |-> "chain", operands |-> operands, comps |-> comps, pad |-> pad,
             tune_params |-> ChainParams,
             text |-> Chain(operands, comps, pad, k)] :
              operands \in [1..k + 1 -> Operands], comps \in [1..k -> Comparators],
              pad \in [1..k -> [1..2 -> 0..1]]}

LogicInputs ==
    {[kind |-> "logic", operands |-> operands, comps |-> comps, pad |-> <<>>,
      tune_params |-> ChainParams,
      text |-> operands[1] \o <<" ">> \o comps[1] \o <<" ">> \o operands[2] \o joiner
               \o operands[1] \o <<" ">> \o comps[2] \o <<" ">> \o operands[2]] :
        operands \in [1..2 -> Operands], comps \in [1..2 -> Comparators], joiner \in Joiners}

\* the variables of the problems of the `==` / `!=` chains, and their values
Names == {<<"x">>, <<"y">>, <<"z">>}
ParamValues == {1, 2}
EqualityComparators == {<<"=", "=">>, <<"!", "=">>}

\* chains of k + 1 variables compared with `==` / `!=`, for a problem that
\* declares two or three variables
EqualityInputs(k) ==
          {[kind |-> "equality", operands |-> operands, comps |-> comps, pad |-> pad,
             tune_params |-> tune_params,
             text |-> Chain(operands, comps, pad, k)] :
              operands \in [1..k + 1 -> Names], comps \in [1..k -> EqualityComparators],
              pad \in [1..k -> [1..2 -> 0..1]],
              tune_params \in {{<<"x">>, <<"y">>}, Names}}

\* the characters regex_match_variable starts and continues an identifier with
\* (no digit, `_` or `$` occurs in the strings)
Letters == {"a", "d", "n", "o", "r", "x", "y", "z"}

\* the identifiers re.sub(regex_match_variable, ...) visits in res from
\* position i on (1-based), cur being the identifier under way
RECURSIVE Idents(_, _, _)
Idents(res, i, cur) ==
    IF i > Len(res) THEN (IF cur = <<>> THEN {} ELSE {cur})
    ELSE IF res[i] \in Letters THEN Idents(res, i + 1, Append(cur, res[i]))
    ELSE (IF cur = <<>> THEN {} ELSE {cur}) \cup Idents(res, i + 1, <<>>)

\* params_used: the identifiers of the restriction that are variables of the problem
ParamsUsed(res, tune_params) == Idents(res, 1, <<>>) \cap tune_params

\* re.findall("|".join(pats), res) from 0-based position i on
RECURSIVE findall(_, _, _)
findall(pats, res, i) ==
    IF i >= Len(res) THEN <<>>
    ELSE LET hits == SelectSeq(pats, LAMBDA pat : MatchAt(res, pat, i))
         IN  IF hits = <<>> THEN findall(pats, res, i + 1)
             ELSE <<hits[1]>> \o findall(pats, res, i + Len(hits[1]))

\* res.split(sep) from 0-based position i on, piece being the part under way
RECURSIVE split(_, _, _, _)
split(res, sep, i, piece) ==
    IF i >= Len(res) THEN <<piece>>
    ELSE IF MatchAt(res, sep, i) THEN <<piece>> \o split(res, sep, i + Len(sep), <<>>)
    ELSE split(res, sep, i + 1, Append(piece, res[i + 1]))

\* the guard of to_numeric_constraint: the restriction has variables (all
\* with numbers as values) and exactly one of the comparators <=, ==, >=, >, <
NumericComparators == << <<"<", "=">>, <<"=", "=">>, <<">", "=">>, <<">">>, <<"<">> >>
NumericApplies(restriction, params) ==
    params # {} /\ Len(findall(NumericComparators, restriction, 0)) = 1

\* to_equality_constraint(restriction, params): the class of the constraint
\* it returns, or None
to_equality_constraint(restriction, params, tune_params) ==
    LET equalities_found == findall(<< <<"=", "=">> >>, restriction, 0)
        inequalities_found == findall(<< <<"!", "=">> >>, restriction, 0)
        comparator == IF Len(equalities_found) > 0 THEN equalities_found[1]
                      ELSE inequalities_found[1]
        splitted == split(restriction, comparator, 0, <<>>)
    IN  IF Cardinality(params) # Cardinality(tune_params) THEN None
        ELSE IF (Len(equalities_found) > 0) = (Len(inequalities_found) > 0) THEN None
        ELSE IF /\ Len(splitted) = Cardinality(params)
                /\ \A i \in 1..Len(splitted) : strip(splitted[i]) \in params
             THEN (IF comparator = <<"=", "=">> THEN "AllEqualConstraint"
                   ELSE "AllDifferentConstraint")
        ELSE None

\* the loop body of parse_restrictions for one restriction: a restriction
\* with and/or becomes a function; otherwise to_numeric_constraint is tried
\* and then to_equality_constraint, and what neither takes becomes a
\* function.  What to_numeric_constraint makes of a restriction that passes
\* its guard is not modelled: numeric_none says whether it returned None,
\* and kind "numeric" stands for its other outcomes (a constraint of another
\* class, or the ValueError for a variable the problem does not declare).
ParseOne(res, tune_params, numeric_none) ==
    LET parsed_restriction == strip(res)
        params == ParamsUsed(res, tune_params)
        logic == \/ Contains(res, <<" ", "a", "n", "d", " ">>)
                 \/ Contains(res, <<" ", "o", "r", " ">>)
        matched == IF logic THEN None
                   ELSE IF NumericApplies(parsed_restriction, params) /\ ~numeric_none
                        THEN "numeric"
                   ELSE to_equality_constraint(parsed_restriction, params, tune_params)
    IN  [kind |-> IF matched = None THEN "function" ELSE matched, params |-> params]

\* parse_restrictions up to the call of to_multiple_restrictions on the
\* registered strings
Split ==
    /\ lastCall.op = "addConstraint"
    /\ \E out \in {to_multiple_restrictions(str_constraints)} :
          lastCall' = [lastCall EXCEPT !.op = "to_multiple_restrictions", !.out = out]
    /\ UNCHANGED <<heap, held, refs, str_constraints, dom, marks, lastPop, variables,
                   declared, pconstraints, solver, run, prev>>

\* the loop of parse_restrictions over the restrictions the split returned
Match ==
    /\ lastCall.op = "to_multiple_restrictions"
    /\ \E numeric_none \in [1..Len(lastCall.out) -> BOOLEAN] :
          lastCall' = [op |-> "parse_restrictions", input |-> lastCall.input,
                       out |-> lastCall.out,
                       parsed |-> [i \in 1..Len(lastCall.out) |->
                                      ParseOne(lastCall.out[i], lastCall.input.tune_params,
                                               numeric_none[i])]]
    /\ UNCHANGED <<heap, held, refs, str_constraints, dom, marks, lastPop, variables,
                   declared, pconstraints, solver, run, prev>>

\* a Problem with one string constraint registered
InitParser ==
    /\ dom = Domain(<<1>>) /\ marks = <<>> /\ lastPop = NoPop
    /\ variables = <<>> /\ declared = <<>> /\ pconstraints = <<>>
    /\ solver = [cls |-> "OptimizedBacktrackingSolver", forwardcheck |-> FALSE]
    /\ run = Idle /\ prev = Idle
    /\ heap = <<>> /\ held = {} /\ refs = <<>>
    /\ \E k \in 1..MaxChain : \E input \in ChainInputs(k) \cup LogicInputs \cup EqualityInputs(k) :
          /\ str_constraints = <<input.text>>
          /\ lastCall = [op |-> "addConstraint", input |-> input, out |-> <<>>]

NextParser ==
    \/ Split
    \/ Match

SpecParser == InitParser /\ [][NextParser]_vars

\* s without its blanks
NoBlanks(res) == SelectSeq(res, LAMBDA ch : ch # " ")

\* C26: a chain e0 c1 e1 ... ck ek of k >= 2 comparators without and/or is
\* split into exactly the k restrictions e(i-1) ci e(i), in order and with
\* each operand complete, whatever the blanks around the comparators.
C26_ChainSplit ==
    (/\ lastCall.op = "to_multiple_restrictions"
     /\ lastCall.input.kind = "chain"
     /\ Len(lastCall.input.comps) >= 2) =>
        LET input == lastCall.input
            k == Len(input.comps)
        IN  /\ Len(lastCall.out) = k
            /\ \A i \in 1..k :
                  NoBlanks(lastCall.out[i])
                      = input.operands[i] \o input.comps[i] \o input.operands[i + 1]

----------------------------------------------------------------------------
(* Properties of the calls on a Problem (SpecCalls), continued *)

\* C27: a solve call leaves the definition of the problem as it found it: the
\* registered constraint records and the registered string constraints are
\* the same after the call as before it.
C27_SolveKeepsDefinition ==
    (run.pc \in {"done", "raised"}) =>
        /\ pconstraints = run.registered
        /\ str_constraints = run.strs

----------------------------------------------------------------------------
(* Two solution iterators on one Problem (SpecIters).  Problem.getSolutionIter
   compiles the arguments at once (_getArgs, on the Domain objects of the
   problem) and returns the generator of the solver; the generators run on
   one thread, so the code between two yields of a generator is one step.
   run.its holds the generators, each with the solutions it has yielded. *)

\* the iterators a caller holds
Iterators == {1, 2}

\* the registered constraints an iterated problem may hold (positions in ConstraintChoices)
IterChoices == {1, 2, 4}

\* for domain in pushdomains: domain.popState(), up to the first Domain whose
\* _states is empty (list.pop raises IndexError there)
RECURSIVE PopAllChecked(_, _)
PopAllChecked(pushdomains, domains) ==
    IF pushdomains = <<>> THEN [err |-> FALSE, domains |-> domains]
    ELSE IF domains[Head(pushdomains)].states = <<>> THEN [err |-> TRUE, domains |-> domains]
    ELSE PopAllChecked(Tail(pushdomains),
                       [domains EXCEPT ![Head(pushdomains)] = popState(@)])

\* a generator that an exception has ended
Raised(r) == [r EXCEPT !.pc = "raised"]

\* after the yield: return when the queue is empty, else pop it
IterResume(r, domains) ==
    IF r.queue = <<>> THEN [r |-> Finish(r), domains |-> domains]
    ELSE LET top == r.queue[Len(r.queue)]
             pop == PopAllChecked(top.pushdomains, domains)
         IN  IF pop.err THEN [r |-> Raised(r), domains |-> pop.domains]
             ELSE [r |-> [r EXCEPT !.pc = "try", !.queue = DropTail_n(@, 1),
                                   !.variable = top.variable, !.values = top.values,
                                   !.pushdomains = top.pushdomains],
                   domains |-> pop.domains]

\* while queue: pop; popState; if values: break; del assignments[variable]
RECURSIVE IterUnwind(_, _)
IterUnwind(r, domains) ==
    IF r.queue = <<>> THEN [r |-> Finish(r), domains |-> domains]
    ELSE LET top == r.queue[Len(r.queue)]
             pop == PopAllChecked(top.pushdomains, domains)
             r1 == [r EXCEPT !.queue = DropTail_n(@, 1), !.variable = top.variable,
                             !.values = top.values, !.pushdomains = top.pushdomains]
         IN  IF pop.err THEN [r |-> Raised(r), domains |-> pop.domains]
             ELSE IF top.values # <<>> THEN [r |-> r1, domains |-> pop.domains]
             ELSE IterUnwind([r1 EXCEPT !.assignments = Del(@, top.variable)], pop.domains)

\* the body of a generator starts at the first next(): the variable order of
\* OptimizedBacktrackingSolver is computed from the domains as they are then
Begin(r, domains) ==
    IF r.queue = <<>> /\ r.cls = "OptimizedBacktrackingSolver"
    THEN [r EXCEPT !.sorted_variables = getSortedVariables(domains, r.vconstraints)]
    ELSE r

\* one step of a generator of getSolutionIter
IterStep(r, domains) ==
    CASE r.pc = "select" -> SelectStep(Begin(r, domains), domains)
      [] r.pc = "emit"   -> IterResume(r, domains)
      [] r.pc = "try" /\ r.values = <<>> ->
            IterUnwind([r EXCEPT !.assignments = Del(@, r.variable)], domains)
      [] r.pc = "try" /\ r.values # <<>> -> TryStep(r, domains)
      [] r.pc = "check"  -> CheckStep(r, domains)

\* next(iterator): the generator runs to its next yield, its return or its exception
RECURSIVE RunToYield(_, _)
RunToYield(r, domains) ==
    CHOOSE end \in
        {IF n.r.pc \in {"emit", "done", "raised"} THEN n ELSE RunToYield(n.r, n.domains) :
            n \in {IterStep(r, domains)}} : TRUE

\* Problem.getSolutionIter(): _getArgs, then iter(()) or the solver's generator
GetSolutionIter ==
    /\ run.pc \in {"idle", "iterating"}
    /\ DOMAIN variables # {}
    /\ \A i \in 1..Len(pconstraints) : ChoiceIndex(pconstraints[i]) \in IterChoices
    /\ LET its == IF run.pc = "idle" THEN <<>> ELSE run.its
       IN  /\ Len(its) < Cardinality(Iterators)
           /\ \E args \in {getArgs(variables, pconstraints)} :
              LET start == StartRun(solver.cls, solver.forwardcheck, "getSolutionIter", args)
                  it == IF args.none THEN [Finish(start) EXCEPT !.impl = "skipped"] ELSE start
              IN  /\ ~args.err
                  /\ variables' = args.domains
                  /\ run' = [pc |-> "iterating", its |-> Append(its, it)]
    /\ UNCHANGED <<Objects, str_constraints, dom, marks, lastPop, declared, pconstraints,
                   solver, prev>>

\* next(iterator) on a generator that has not ended
NextSolution(k) ==
    /\ run.pc = "iterating"
    /\ k \in 1..Len(run.its)
    /\ run.its[k].pc \in {"select", "emit"}
    /\ \E n \in {RunToYield(run.its[k], variables)} :
          /\ run' = [run EXCEPT !.its[k] = n.r]
          /\ variables' = n.domains
    /\ UNCHANGED <<Objects, str_constraints, dom, marks, lastPop, declared, pconstraints,
                   solver, prev>>

InitIters ==
    /\ dom = Domain(<<1>>) /\ marks = <<>> /\ lastPop = NoPop
    /\ variables = <<>> /\ declared = <<>> /\ pconstraints = <<>>
    /\ solver \in [cls : {"BacktrackingSolver", "OptimizedBacktrackingSolver"},
                   forwardcheck : {TRUE}]
    /\ run = Idle /\ prev = Idle
    /\ NoObjects

NextIters ==
    \/ \E domain \in DomainChoices : addVariable(domain)
    \/ \E k \in IterChoices : addConstraint(k)
    \/ GetSolutionIter
    \/ \E k \in Iterators : NextSolution(k)

SpecIters == InitIters /\ [][NextIters]_vars

\* what an iterator of the problem yields when it is the only one: the
\* solutions of a freshly built Problem with the same variables and constraints
Alone ==
    Solve(solver.cls, solver.forwardcheck, "getSolutionIter",
          getArgs(Fresh, pconstraints)).r.solutions

\* C28: with forward checking, each of two iterators of one Problem, advanced
\* in any interleaving, yields the solutions it yields when consumed alone,
\* in the same order and up to the same end, and raises no error.
C28_IteratorsIndependent ==
    (run.pc = "iterating") =>
        \A k \in 1..Len(run.its) :
            LET it == run.its[k]
            IN  /\ it.pc # "raised"
                /\ Len(it.solutions) <= Len(Alone)
                /\ it.solutions = SubSeq(Alone, 1, Len(it.solutions))
                /\ (it.pc = "done" => it.solutions = Alone)

----------------------------------------------------------------------------
(* MaxProdConstraint and ExactProdConstraint (constraint/constraints.py),
   SpecProd: one constraint object registered on several variable tuples.
   The object keeps the list _variable_contains_lt1; the solve call carries
   it in run.flags.  Only the first len(variables) entries of the list are
   read and its length is only compared with len(variables), so the list is
   kept up to MaxVars + 1 entries. *)

ProdConstraint(kind, bound) == [kind |-> kind, bound |-> bound]

\* any(value < 1 for value in domains[variable])
ContainsLt1(d) == \E i \in 1..Len(d.values) : d.values[i] < 1

\* the flags of the variables of a tuple, as preProcess and __call__ compute them
FlagsOf(cvars, domains) == [i \in 1..Len(cvars) |-> ContainsLt1(domains[cvars[i]])]

\* the list kept up to MaxVars + 1 entries
Capped(flags) ==
    IF Len(flags) > MaxVars + 1 THEN SubSeq(flags, 1, MaxVars + 1) ELSE flags

\* if len(self._variable_contains_lt1) != len(variables): append a flag per variable
Refreshed(flags, cvars, domains) ==
    IF Len(flags) # Len(cvars) THEN Capped(flags \o FlagsOf(cvars, domains)) ELSE flags

\* prod *= assignments[variable] over the zipped positions 1..n
RECURSIVE ProdOf(_, _, _)
ProdOf(cvars, assignments, n) ==
    IF n = 0 THEN 1
    ELSE ProdOf(cvars, assignments, n - 1)
            * (IF cvars[n] \in DOMAIN assignments THEN assignments[cvars[n]] ELSE 1)

\* MaxProdConstraint.__call__ / ExactProdConstraint.__call__
ProdCall(c, flags, cvars, domains, assignments, forwardcheck) ==
    LET flags1 == Refreshed(flags, cvars, domains)
        zipped == Zip(cvars, flags1)
        prod == ProdOf(cvars, assignments, Cardinality(zipped))
        missing == \E i \in zipped : cvars[i] \notin DOMAIN assignments
        missing_lt1 == {cvars[i] : i \in {j \in zipped :
                                            cvars[j] \notin DOMAIN assignments /\ flags1[j]}}
        refused == IF c.kind = "MaxProd"
                   THEN (~missing \/ missing_lt1 = {}) /\ prod > c.bound
                   ELSE (~missing /\ prod # c.bound) \/ (missing_lt1 = {} /\ prod > c.bound)
        un == SelectSeq(cvars, LAMBDA v : /\ v \notin DOMAIN assignments
                                          /\ (v \notin missing_lt1 \/ Cardinality(missing_lt1) = 1))
        toHide == [v \in Range(un) |->
                      SelectSeq(domains[v].values, LAMBDA value : prod * value > c.bound)]
        checked == IF refused THEN [ok |-> FALSE, domains |-> domains]
                   ELSE IF forwardcheck THEN HideLoop(un, domains, toHide)
                   ELSE [ok |-> TRUE, domains |-> domains]
    IN  [ok |-> checked.ok, domains |-> checked.domains, flags |-> flags1]

\* for constraint, variables in vconstraints[variable]: if not constraint(...): break
RECURSIVE ProdCheckAll(_, _, _, _, _)
ProdCheckAll(cs, flags, domains, assignments, forwardcheck) ==
    IF cs = <<>> THEN [ok |-> TRUE, domains |-> domains, flags |-> flags]
    ELSE LET res == ProdCall(Head(cs).c, flags, Head(cs).vars, domains, assignments, forwardcheck)
         IN  IF ~res.ok THEN res
             ELSE ProdCheckAll(Tail(cs), res.flags, res.domains, assignments, forwardcheck)

\* Constraint.preProcess for a product constraint on one variable: the values
\* the constraint refuses are removed and the constraint is dropped
ProdSingle(c, cvars, st) ==
    IF Len(cvars) = 1
    THEN LET variable == cvars[1]
             e == Entry(c, cvars)
             kept == SelectSeq(st.domains[variable].values,
                               LAMBDA value : IF c.kind = "MaxProd" THEN value <= c.bound
                                              ELSE value = c.bound)
         IN  [st EXCEPT !.domains[variable].values = kept,
                        !.constraints = ListRemove(@, e),
                        !.vconstraints = [@ EXCEPT ![variable] = ListRemove(@, e)]]
    ELSE st

\* the pruning loop of preProcess: values above the bound, and the zero when
\* the bound excludes it, are removed
RECURSIVE ProdPrune(_, _, _, _)
ProdPrune(vs, c, with_lt1, domains) ==
    IF vs = <<>> THEN domains
    ELSE LET v == Head(vs)
             kept == SelectSeq(domains[v].values,
                        LAMBDA value :
                            ~(\/ value > c.bound
                              \/ value = 0 /\ (IF c.kind = "MaxProd" THEN c.bound < 0
                                               ELSE c.bound # 0)))
         IN  IF with_lt1 # {} /\ v \notin with_lt1 THEN ProdPrune(Tail(vs), c, with_lt1, domains)
             ELSE ProdPrune(Tail(vs), c, with_lt1, [domains EXCEPT ![v].values = kept])

\* MaxProdConstraint.preProcess / ExactProdConstraint.preProcess
ProdPreProcess(c, cvars, st) ==
    LET st1 == ProdSingle(c, cvars, st)
        flags == FlagsOf(cvars, st1.domains)
        lt1 == {i \in 1..Len(cvars) : flags[i]}
    IN  IF Cardinality(lt1) > 1 THEN [st1 EXCEPT !.flags = flags]
        ELSE [st1 EXCEPT !.flags = flags,
                         !.domains = ProdPrune(cvars, c, {cvars[i] : i \in lt1}, st1.domains)]

\* for constraint, variables in constraints[:]: constraint.preProcess(...)
RECURSIVE ProdPreProcessAll(_, _)
ProdPreProcessAll(snapshot, st) ==
    IF snapshot = <<>> THEN st
    ELSE ProdPreProcessAll(Tail(snapshot),
                           ProdPreProcess(Head(snapshot).c, Head(snapshot).vars, st))

\* Problem._getArgs on a problem whose constraints are registrations of one
\* product constraint object
ProdGetArgs(domains, registered, flags) ==
    LET allvariables == AllVariables(domains)
        vconstraints == [v \in DOMAIN domains |->
                            SelectSeq(registered, LAMBDA e : In(v, e.vars))]
        st0 == [domains |-> domains, constraints |-> registered,
                vconstraints |-> vconstraints, err |-> FALSE, none |-> FALSE,
                flags |-> flags]
    IN  ResetAll(allvariables, ProdPreProcessAll(registered, st0))

\* the constraint loop of the search with the flags of the object
ProdCheckStep(r, domains) ==
    LET res == ProdCheckAll(r.vconstraints[r.variable], r.flags, domains, r.assignments,
                            r.pushdomains # <<>>)
    IN  IF res.ok
        THEN [r |-> [r EXCEPT !.pc = "select", !.flags = res.flags,
                              !.queue = Append(@, [variable |-> r.variable, values |-> r.values,
                                                   pushdomains |-> r.pushdomains])],
              domains |-> res.domains]
        ELSE [r |-> [r EXCEPT !.pc = "try", !.flags = res.flags],
              domains |-> PopAll(r.pushdomains, res.domains)]

\* one step of getSolutions on the problem
ProdStep(r, domains) ==
    CASE r.pc = "select" -> SelectStep(r, domains)
      [] r.pc = "emit"   -> ResumeStep(r, domains)
      [] r.pc = "try" /\ r.values = <<>> -> BacktrackStep(r, domains)
      [] r.pc = "try" /\ r.values # <<>> -> TryStep(r, domains)
      [] r.pc = "check"  -> ProdCheckStep(r, domains)

\* the domains the variables are declared with, the constraint objects and
\* the tuples one object is registered on
ProdDomains == {<<2>>, <<0, 1>>, <<1, 2>>}
ProdConstraints == {ProdConstraint(kind, bound) : kind \in {"MaxProd", "ExactProd"}, bound \in {0, 1}}
ProdTuples == { << <<1, 2>>, <<3>> >>, << <<1, 2>>, <<2, 3>> >>,
                << <<3>>, <<1, 2>> >>, << <<1, 2, 3>> >> }

\* Problem.getSolutions(): _getArgs, then the solver
SolveProd ==
    /\ run.pc = "idle"
    /\ \E args \in {ProdGetArgs(variables, pconstraints, <<>>)} :
       LET start == StartRun(solver.cls, solver.forwardcheck, "getSolutions", args)
                        @@ [flags |-> args.flags]
       IN  /\ variables' = args.domains
           /\ run' = IF args.none THEN [Finish(start) EXCEPT !.impl = "skipped"] ELSE start
    /\ UNCHANGED <<Objects, str_constraints, dom, marks, lastPop, declared, pconstraints,
                   solver, prev>>

\* a step of the solver's loop
AdvanceProd(pc, cond) ==
    /\ run.pc = pc /\ cond
    /\ \E n \in {ProdStep(run, variables)} :
          run' = n.r /\ variables' = n.domains
    /\ UNCHANGED <<Objects, str_constraints, dom, marks, lastPop, declared, pconstraints,
                   solver, prev>>

SelectProd == AdvanceProd("select", TRUE)
ResumeProd == AdvanceProd("emit", TRUE)
BacktrackProd == AdvanceProd("try", run.values = <<>>)
TryProd == AdvanceProd("try", run.values # <<>>)
CheckProd == AdvanceProd("check", TRUE)

\* a Problem with MaxVars variables and one product constraint object added
\* for each tuple of a list of tuples
InitProd ==
    /\ dom = Domain(<<1>>) /\ marks = <<>> /\ lastPop = NoPop
    /\ declared \in [1..MaxVars -> ProdDomains]
    /\ variables = [v \in 1..MaxVars |-> Domain(declared[v])]
    /\ \E c \in ProdConstraints, tuples \in ProdTuples :
          pconstraints = [i \in 1..Len(tuples) |-> Entry(c, tuples[i])]
    /\ solver \in [cls : {"BacktrackingSolver", "OptimizedBacktrackingSolver"},
                   forwardcheck : BOOLEAN]
    /\ run = Idle /\ prev = Idle
    /\ NoObjects

NextProd ==
    \/ SolveProd
    \/ SelectProd
    \/ ResumeProd
    \/ BacktrackProd
    \/ TryProd
    \/ CheckProd

SpecProd == InitProd /\ [][NextProd]_vars

\* what a registration of a product constraint means for a complete assignment
ProdAccepts(e, a) ==
    IF e.c.kind = "MaxProd" THEN ProdOf(e.vars, a, Len(e.vars)) <= e.c.bound
    ELSE ProdOf(e.vars, a, Len(e.vars)) = e.c.bound

\* C29: the solutions of a problem in which one product constraint object is
\* registered on several tuples are exactly the complete assignments in which
\* every registered tuple on its own satisfies the constraint.
C29_SharedObjectIndependent ==
    (run.pc = "done" /\ Len(pconstraints) >= 2) =>
        Range(run.solutions) =
            {a \in CompleteAssignments :
                \A i \in 1..Len(pconstraints) : ProdAccepts(pconstraints[i], a)}

----------------------------------------------------------------------------
(* Properties of the parser (SpecParser), continued *)

\* the complete assignments of the variables the problem of the string declares
ParamAssignments == [lastCall.input.tune_params -> ParamValues]

\* the value of the original expression: Python reads e0 c1 e1 c2 e2 as
\* (e0 c1 e1) and (e1 c2 e2)
Evaluates(input, a) ==
    \A i \in 1..Len(input.comps) :
        IF input.comps[i] = <<"=", "=">>
        THEN a[input.operands[i]] = a[input.operands[i + 1]]
        ELSE a[input.operands[i]] # a[input.operands[i + 1]]

\* AllEqualConstraint.__call__ / AllDifferentConstraint.__call__ on a complete
\* assignment of the variables the constraint is registered on
EmittedAccepts(parsed, a) ==
    IF parsed.kind = "AllEqualConstraint"
    THEN \A v, w \in parsed.params : a[v] = a[w]
    ELSE \A v, w \in parsed.params : v # w => a[v] # a[w]

\* equality matching has turned the string into AllEqual / AllDifferent
EqualityMatched ==
    /\ lastCall.op = "parse_restrictions"
    /\ lastCall.input.kind = "equality"
    /\ Len(lastCall.parsed) = 1
    /\ lastCall.parsed[1].kind \in {"AllEqualConstraint", "AllDifferentConstraint"}

\* C30: when equality matching turns a chain of the declared variables joined
\* by `==` or by `!=` into AllEqualConstraint or AllDifferentConstraint, the
\* constraint accepts exactly the complete assignments for which the string
\* evaluates to true.
C30_EqualityMatchingExact ==
    EqualityMatched =>
        \A a \in ParamAssignments :
            EmittedAccepts(lastCall.parsed[1], a) <=> Evaluates(lastCall.input, a)

====
